---- MODULE Spec2Model ----
(***************************************************************************)
(* Pentomino tiling search and its search-trace recorder.                  *)
(*                                                                         *)
(*   SearchState.search   src/manim/pentomino_6x10.py       (event budget) *)
(*   DFSSolver.solve      src/manim/pentomino_6x10_five.py  (seeded)       *)
(*   build_trace          src/manim/triplication_dfs_tree.py               *)
(*   build_trace          src/manim/rect_6x10_dfs_tree.py                  *)
(*                                                                         *)
(* The recursive searches are modelled with an explicit call stack: one    *)
(* frame per active call, one action per stretch of code between two       *)
(* recursive calls or returns.                                             *)
(***************************************************************************)
EXTENDS Integers, Sequences, FiniteSets, TLC

VARIABLES
    prog,                  \* which entry point this run executes
    rows, cols,            \* board bounds (dataclass fields / Problem.rows, cols)
    max_steps,             \* SearchState.max_steps
    seed,                  \* DFSSolver.seed
    mask_cells,            \* Problem.mask_cells (a list of cells)
    selected_pieces,       \* Problem.selected_pieces (a list of names)
    enable_pruning, max_display_depth, max_display_children, max_nodes,
    sorted_mask,           \* build_trace: sorted(problem.mask_cells)
    allowed_keys,          \* build_trace: {key(rc) for rc in problem.mask_cells}
    board,                 \* grid (search/solve) or dict cell -> piece (build_trace)
    used,                  \* set of piece names
    filled_keys,           \* build_trace: set of key(rc)
    events,                \* SearchState.events / build_trace events
    nodes,                 \* build_trace node table: node id -> NodeData
    next_node_id, node_counter,
    step_elapsed_ms,       \* build_trace (rect): one sample per dfs call
    tried,                 \* build_trace: the placements dfs applied and searched, in order
    rng,                   \* DFSSolver.rng state
    delivered,             \* what earlier calls handed back to the caller
    caller,                \* the code above the entry point, "none" if none
    count, max_attempts,   \* find_unique_solutions: its arguments
    attempt,               \* find_unique_solutions: the loop variable
    unique,                \* find_unique_solutions: the dict, in insertion order
    stack,                 \* call stack, innermost frame last
    ret,                   \* value returned by the call that returned last
    pc                     \* "run" while the entry point is active, then "done"

inputs == <<prog, rows, cols, max_steps, seed, mask_cells, selected_pieces,
            enable_pruning, max_display_depth, max_display_children, max_nodes,
            sorted_mask, allowed_keys, delivered,
            caller, count, max_attempts, attempt, unique>>
callerVars == <<caller, count, max_attempts, attempt, unique>>
traceVars == <<filled_keys, nodes, next_node_id, node_counter, step_elapsed_ms,
               tried>>
vars == <<prog, rows, cols, max_steps, seed, mask_cells, selected_pieces,
          enable_pruning, max_display_depth, max_display_children, max_nodes,
          sorted_mask, allowed_keys, delivered,
          caller, count, max_attempts, attempt, unique,
          board, used, filled_keys, events, nodes, next_node_id, node_counter,
          step_elapsed_ms, tried, rng, stack, ret, pc>>

(***************************************************************************)
(* Bounds of the model.                                                    *)
(***************************************************************************)
MaxRows == 3
MaxCols == 5
MaxCells == 15
MaxSteps == 12
FullSteps == 200
MaxSeed == 2
MaxNodes == 5
FullNodes == 40
MaxDisplayDepth == 3
MaxDisplayChildren == 3
MaxNotchCells == 9
MaxCount == 5
MaxAttempts == 6
MaxShift == 1
MaxOracleCells == 10
MaxRecapChildren == 4

None == "None"
NoId == -1      \* None where the code holds Optional[int]
NoRet == "NoRet"

(***************************************************************************)
(* Piece table and orientations.                                           *)
(***************************************************************************)
PENTOMINOES ==
    [ F |-> << <<0,1>>, <<1,0>>, <<1,1>>, <<1,2>>, <<2,0>> >>,
      I |-> << <<0,0>>, <<0,1>>, <<0,2>>, <<0,3>>, <<0,4>> >>,
      L |-> << <<0,0>>, <<1,0>>, <<2,0>>, <<3,0>>, <<3,1>> >>,
      P |-> << <<0,0>>, <<0,1>>, <<1,0>>, <<1,1>>, <<2,0>> >>,
      N |-> << <<0,0>>, <<1,0>>, <<1,1>>, <<2,1>>, <<3,1>> >>,
      T |-> << <<0,0>>, <<0,1>>, <<0,2>>, <<1,1>>, <<2,1>> >>,
      U |-> << <<0,0>>, <<0,2>>, <<1,0>>, <<1,1>>, <<1,2>> >>,
      V |-> << <<0,0>>, <<1,0>>, <<2,0>>, <<2,1>>, <<2,2>> >>,
      W |-> << <<0,0>>, <<1,0>>, <<1,1>>, <<2,1>>, <<2,2>> >>,
      X |-> << <<0,1>>, <<1,0>>, <<1,1>>, <<1,2>>, <<2,1>> >>,
      Y |-> << <<0,1>>, <<1,1>>, <<2,0>>, <<2,1>>, <<3,1>> >>,
      Z |-> << <<0,0>>, <<0,1>>, <<1,1>>, <<2,1>>, <<2,2>> >> ]

PieceNames == DOMAIN PENTOMINOES

\* sorted(PENTOMINOES): the names in alphabetical order
SortedNames == <<"F", "I", "L", "N", "P", "T", "U", "V", "W", "X", "Y", "Z">>

\* list(PIECES.keys()): the names in the order the table lists them
PieceKeys == <<"F", "I", "L", "P", "N", "T", "U", "V", "W", "X", "Y", "Z">>

\* tuple comparison of two cells: row first, then column
CellLess(a, b) == a[1] < b[1] \/ (a[1] = b[1] /\ a[2] < b[2])

RECURSIVE InsertSorted(_, _)
InsertSorted(s, x) ==
    IF s = <<>> THEN <<x>>
    ELSE IF CellLess(x, Head(s)) THEN <<x>> \o s
    ELSE <<Head(s)>> \o InsertSorted(Tail(s), x)

RECURSIVE SortedCells(_)
SortedCells(s) ==
    IF s = <<>> THEN <<>>
    ELSE InsertSorted(SortedCells(Tail(s)), Head(s))

SeqMin(s, k) ==
    CHOOSE m \in {s[i][k] : i \in DOMAIN s} :
        \A i \in DOMAIN s : m <= s[i][k]

\* the cells sorted where they are, not moved to the origin
normalize_unshifted(cells) == SortedCells(cells)

normalize(cells) ==
    LET min_r == SeqMin(cells, 1)
        min_c == SeqMin(cells, 2)
    IN SortedCells([i \in DOMAIN cells |->
                       <<cells[i][1] - min_r, cells[i][2] - min_c>>])

RECURSIVE Rotate(_, _)
Rotate(xy, k) ==
    IF k = 0 THEN xy ELSE Rotate(<<xy[2], 0 - xy[1]>>, k - 1)

\* the reflection alone: the rotation is dropped
transform_unrotated(cells, k, reflect) ==
    normalize([i \in DOMAIN cells |->
        <<cells[i][1], IF reflect THEN 0 - cells[i][2] ELSE cells[i][2]>>])

transform(cells, k, reflect) ==
    normalize([i \in DOMAIN cells |->
        Rotate(<<cells[i][1],
                 IF reflect THEN 0 - cells[i][2] ELSE cells[i][2]>>, k % 4)])

\* the 8 (reflect, k) combinations in loop order
RECURSIVE OrientLoop(_, _, _)
OrientLoop(cells, n, variants) ==
    IF n = 8 THEN variants
    ELSE LET v == transform(cells, n % 4, n >= 4)
         IN OrientLoop(cells, n + 1,
                IF \E i \in DOMAIN variants : variants[i] = v
                THEN variants ELSE Append(variants, v))

unique_orientations(cells) == OrientLoop(cells, 0, <<>>)

ORIENTATIONS == [name \in PieceNames |-> unique_orientations(PENTOMINOES[name])]

\* the orientations of a piece taken from the last of its list back
RECURSIVE FlattenOrientsBackwards(_, _)
FlattenOrientsBackwards(os, i) ==
    IF i > Len(os) THEN <<>>
    ELSE LET o == os[Len(os) + 1 - i]
         IN [a \in 1..Len(o) |-> [orient |-> o, cell |-> o[a]]]
            \o FlattenOrientsBackwards(os, i + 1)

\* the (orient, anchor cell) pairs of one piece in the order the two inner
\* loops of the searches visit them
RECURSIVE FlattenOrients(_, _)
FlattenOrients(os, i) ==
    IF i > Len(os) THEN <<>>
    ELSE [a \in 1..Len(os[i]) |-> [orient |-> os[i], cell |-> os[i][a]]]
         \o FlattenOrients(os, i + 1)

PieceCands == [name \in PieceNames |-> FlattenOrients(ORIENTATIONS[name], 1)]

\* the shift that lays the chosen cell one column to the right of the anchor
ShiftedCellBeside(orient, cell, anchor, i) ==
    <<orient[i][1] + (anchor[1] - cell[1]),
      orient[i][2] + (anchor[2] - cell[2]) + 1>>

\* shifted = tuple((r + dr, c + dc) for r, c in orient), dr = anchor_r - cell_r
ShiftedCell(orient, cell, anchor, i) ==
    <<orient[i][1] + (anchor[1] - cell[1]), orient[i][2] + (anchor[2] - cell[2])>>

Shifted(orient, cell, anchor) ==
    [i \in DOMAIN orient |-> ShiftedCell(orient, cell, anchor, i)]

CellSet(cells) == {cells[i] : i \in DOMAIN cells}

(***************************************************************************)
(* Grid board of SearchState / DFSSolver.                                  *)
(***************************************************************************)
GridCells(r, c) == (0..(r - 1)) \X (0..(c - 1))

EmptyGrid(r, c) == [rc \in GridCells(r, c) |-> None]

\* first_empty: for r in range(rows): for c in range(cols), from the k-th
\* cell of that order on
RECURSIVE GridFirstFrom(_, _, _, _)
GridFirstFrom(b, r, c, k) ==
    IF k >= r * c THEN None
    ELSE IF b[<<k \div c, k % c>>] = None THEN <<k \div c, k % c>>
    ELSE GridFirstFrom(b, r, c, k + 1)

grid_first_empty(b, r, c) == GridFirstFrom(b, r, c, 0)

\* the bounds test alone: an occupied cell passes
grid_cell_in_bounds(b, r, c, rc) ==
    ~(rc[1] < 0 \/ rc[1] >= r \/ rc[2] < 0 \/ rc[2] >= c)

\* one iteration of can_place's loop: the cell is in bounds and free
grid_cell_free(b, r, c, rc) ==
    /\ ~(rc[1] < 0 \/ rc[1] >= r \/ rc[2] < 0 \/ rc[2] >= c)
    /\ b[rc] = None

grid_can_place(b, r, c, cells) ==
    \A i \in DOMAIN cells : grid_cell_free(b, r, c, cells[i])

grid_apply_place(b, name, cells) ==
    [rc \in DOMAIN b |-> IF rc \in CellSet(cells) THEN name ELSE b[rc]]

\* a removal that stops one cell short
grid_apply_remove_short(b, cells) ==
    [rc \in DOMAIN b |->
        IF rc \in CellSet(SubSeq(cells, 1, Len(cells) - 1)) THEN None ELSE b[rc]]

grid_apply_remove(b, cells) ==
    [rc \in DOMAIN b |-> IF rc \in CellSet(cells) THEN None ELSE b[rc]]

(***************************************************************************)
(* Call-stack helpers.                                                     *)
(***************************************************************************)
Top == stack[Len(stack)]
Pop == SubSeq(stack, 1, Len(stack) - 1)
SetTop(f) == [stack EXCEPT ![Len(stack)] = f]

\* a call returns v: its frame is popped; the entry point is done when the
\* outermost call returns
Return(v) ==
    /\ ret' = v
    /\ stack' = Pop
    /\ pc' = IF Len(stack) = 1 THEN "done" ELSE "run"

\* the candidates of a call in loop order: for name, for orient, for cell
RECURSIVE FlattenNames(_, _)
FlattenNames(names, i) ==
    IF i > Len(names) THEN <<>>
    ELSE [k \in 1..Len(PieceCands[names[i]]) |->
             [name |-> names[i], orient |-> PieceCands[names[i]][k].orient,
              cell |-> PieceCands[names[i]][k].cell]]
         \o FlattenNames(names, i + 1)

SearchCands == FlattenNames(SortedNames, 1)

\* the set S with its members worked out once
Listed(S) == S \cup {}

Min(S) == LET T == Listed(S) IN CHOOSE m \in T : \A o \in T : m <= o

\* the end of the stretch of candidates looked at in one go
ChunkEnd(cands, pos) == IF pos + 24 < Len(cands) THEN pos + 24 ELSE Len(cands)

\* the loops run from the candidate after number pos up to the next one whose
\* piece is unused and whose shifted cells can be placed (0: none is left)
RECURSIVE GridScan(_, _, _)
GridScan(cands, pos, anchor) ==
    IF pos >= Len(cands) THEN 0
    ELSE LET V == Listed({j \in (pos + 1)..ChunkEnd(cands, pos) :
                     /\ cands[j].name \notin used
                     /\ \A i \in DOMAIN cands[j].orient :
                           grid_cell_free(board, rows, cols,
                               ShiftedCell(cands[j].orient, cands[j].cell,
                                           anchor, i))})
         IN IF V # {} THEN Min(V) ELSE GridScan(cands, ChunkEnd(cands, pos), anchor)

(***************************************************************************)
(* SearchState.search                                                      *)
(***************************************************************************)
\* record(op, piece): append unless the budget is reached; TRUE = stop
record_events(op, piece) ==
    IF Len(events) >= max_steps THEN events
    ELSE Append(events, <<op, piece>>)

\* a record() that never reports the budget as reached
record_result_never(op, piece) == FALSE

record_result(op, piece) ==
    IF Len(events) >= max_steps THEN TRUE
    ELSE Len(Append(events, <<op, piece>>)) >= max_steps

SearchFrame ==
    [phase |-> "entry", pos |-> 0, name |-> None, shifted |-> <<>>,
     entry_board |-> board, entry_used |-> used]

\* lines 93-100: budget check and success check at the top of a call
SearchCall ==
    /\ prog = "search" /\ pc = "run" /\ Top.phase = "entry"
    /\ IF Len(events) >= max_steps THEN Return(TRUE)
       ELSE IF grid_first_empty(board, rows, cols) = None THEN Return(TRUE)
       ELSE /\ stack' = SetTop([Top EXCEPT !.phase = "loop"])
            /\ UNCHANGED <<ret, pc>>
    /\ UNCHANGED <<inputs, traceVars, board, used, events, rng>>

\* lines 102-119 and 126: loop to the next placeable candidate, place it,
\* record it and call search(); FALSE when every candidate failed
SearchLoop ==
    /\ prog = "search" /\ pc = "run" /\ Top.phase = "loop"
    /\ \E anchor \in {grid_first_empty(board, rows, cols)} :
       \E j \in {GridScan(SearchCands, Top.pos, anchor)} :
       IF j = 0
       THEN /\ Return(FALSE)
            /\ UNCHANGED <<board, used, events>>
       ELSE \E shifted \in {Shifted(SearchCands[j].orient, SearchCands[j].cell, anchor)} :
            LET name == SearchCands[j].name
            IN /\ board' = grid_apply_place(board, name, shifted)
               /\ used' = used \cup {name}
               /\ events' = record_events("place", <<name, shifted>>)
               /\ IF record_result("place", <<name, shifted>>)
                  THEN Return(TRUE)
                  ELSE /\ stack' = Append(
                             SetTop([Top EXCEPT !.phase = "wait", !.pos = j,
                                       !.name = name, !.shifted = shifted]),
                             [SearchFrame EXCEPT !.entry_board = board',
                                                 !.entry_used = used'])
                       /\ UNCHANGED <<ret, pc>>
    /\ UNCHANGED <<inputs, traceVars, rng>>

\* lines 119-124: the recursive call returned
SearchResume ==
    /\ prog = "search" /\ pc = "run" /\ Top.phase = "wait"
    /\ IF ret = TRUE
       THEN /\ Return(TRUE)
            /\ UNCHANGED <<board, used, events>>
       ELSE /\ board' = grid_apply_remove(board, Top.shifted)
            /\ used' = used \ {Top.name}
            /\ events' = record_events("remove", <<Top.name, Top.shifted>>)
            /\ IF record_result("remove", <<Top.name, Top.shifted>>)
               THEN Return(TRUE)
               ELSE /\ stack' = SetTop([Top EXCEPT !.phase = "loop"])
                    /\ ret' = NoRet
                    /\ UNCHANGED pc
    /\ UNCHANGED <<inputs, traceVars, rng>>

(***************************************************************************)
(* DFSSolver.solve                                                         *)
(*                                                                         *)
(* random.Random is the Mersenne Twister MT19937 of the standard library  *)
(* (CPython, Modules/_randommodule.c).  solve() uses it through shuffle()  *)
(* alone: shuffle draws randbelow(i + 1) for every index from the last one *)
(* down, randbelow(n) takes getrandbits(n.bit_length()) until the value is *)
(* below n, and getrandbits(k) with k <= 32 is the top k bits of the next  *)
(* 32-bit output.                                                          *)
(***************************************************************************)
\* the state of CPython's random.Random (Modules/_randommodule.c): the 624
\* words of the Mersenne Twister MT19937 and the index of the next word.  A
\* 32-bit word is the pair <<high 16 bits, low 16 bits>>.
TwisterN == 624
TwisterM == 397
MatrixA == <<39176, 45279>>          \* 0x9908b0df
TemperB == <<40236, 22144>>          \* 0x9d2c5680
TemperC == <<61382, 0>>              \* 0xefc60000

\* a ^ b (xor TRUE) or a & b on n bits, bit by bit
RECURSIVE BitsOp(_, _, _, _)
BitsOp(a, b, n, xor) ==
    IF n = 0 THEN 0
    ELSE (IF xor THEN (a + b) % 2 ELSE (a % 2) * (b % 2))
         + 2 * BitsOp(a \div 2, b \div 2, n - 1, xor)

\* the two operations tabled once, on 4 bits (entry a * 16 + b + 1) and from
\* these on 8 bits (entry a * 256 + b + 1)
Xor4 == SubSeq([i \in 1..256 |-> BitsOp((i - 1) \div 16, (i - 1) % 16, 4, TRUE)],
               1, 256)
And4 == SubSeq([i \in 1..256 |-> BitsOp((i - 1) \div 16, (i - 1) % 16, 4, FALSE)],
               1, 256)
Xor8 ==
    SubSeq([i \in 1..65536 |->
               16 * Xor4[((i - 1) \div 4096) * 16 + (((i - 1) \div 16) % 16) + 1]
               + Xor4[(((i - 1) \div 256) % 16) * 16 + ((i - 1) % 16) + 1]],
           1, 65536)
And8 ==
    SubSeq([i \in 1..65536 |->
               16 * And4[((i - 1) \div 4096) * 16 + (((i - 1) \div 16) % 16) + 1]
               + And4[(((i - 1) \div 256) % 16) * 16 + ((i - 1) % 16) + 1]],
           1, 65536)

\* a ^ b and a & b on 16 bits, eight bits at a time
Xor16(a, b) ==
    Xor8[(a % 256) * 256 + (b % 256) + 1]
    + 256 * Xor8[(a \div 256) * 256 + (b \div 256) + 1]
And16(a, b) ==
    And8[(a % 256) * 256 + (b % 256) + 1]
    + 256 * And8[(a \div 256) * 256 + (b \div 256) + 1]

\* TwoTo[n + 1] is 2^n
TwoTo == <<1, 2, 4, 8, 16, 32, 64, 128, 256, 512, 1024, 2048, 4096, 8192,
          16384, 32768, 65536>>

\* a ^ b, a & b, a >> s, a << s, a + b, a - n and a * c on 32 bits (unsigned,
\* 0 < s < 32, 0 <= n < 65536)
Xor32(a, b) == <<Xor16(a[1], b[1]), Xor16(a[2], b[2])>>
And32(a, b) == <<And16(a[1], b[1]), And16(a[2], b[2])>>
Shr32(a, s) ==
    IF s >= 16 THEN <<0, a[1] \div TwoTo[s - 15]>>
    ELSE <<a[1] \div TwoTo[s + 1],
           (a[1] % TwoTo[s + 1]) * TwoTo[17 - s] + (a[2] \div TwoTo[s + 1])>>
Shl32(a, s) ==
    IF s >= 16 THEN <<(a[2] % TwoTo[33 - s]) * TwoTo[s - 15], 0>>
    ELSE <<(a[1] % TwoTo[17 - s]) * TwoTo[s + 1] + (a[2] \div TwoTo[17 - s]),
           (a[2] % TwoTo[17 - s]) * TwoTo[s + 1]>>
Add32(a, b) ==
    <<(a[1] + b[1] + ((a[2] + b[2]) \div 65536)) % 65536, (a[2] + b[2]) % 65536>>
Sub32(a, n) ==
    IF a[2] >= n THEN <<a[1], a[2] - n>>
    ELSE <<(a[1] + 65535) % 65536, a[2] + 65536 - n>>
Mul32(a, c) ==
    LET a0 == a[2] % 256  a1 == a[2] \div 256
        a2 == a[1] % 256  a3 == a[1] \div 256
        c0 == c[2] % 256  c1 == c[2] \div 256
        c2 == c[1] % 256  c3 == c[1] \div 256
        t0 == a0 * c0
        t1 == a0 * c1 + a1 * c0 + (t0 \div 256)
        t2 == a0 * c2 + a1 * c1 + a2 * c0 + (t1 \div 256)
        t3 == a0 * c3 + a1 * c2 + a2 * c1 + a3 * c0 + (t2 \div 256)
    IN <<(t3 % 256) * 256 + (t2 % 256), (t1 % 256) * 256 + (t0 % 256)>>

\* w ^ (w >> 30), the word the seeding multiplies
SeedMix(w) == Xor32(w, Shr32(w, 30))

\* init_genrand(s): mt[0] = s, mt[i] = 1812433253 * (mt[i-1] ^ (mt[i-1] >> 30)) + i;
\* the words number lo to hi (1-based) are appended, the first half first
RECURSIVE init_genrand_range(_, _, _)
init_genrand_range(mt, lo, hi) ==
    IF lo > hi THEN mt
    ELSE IF lo = hi
    THEN Append(mt, Add32(Mul32(<<27655, 35173>>, SeedMix(mt[lo - 1])),
                          <<0, lo - 1>>))
    ELSE CHOOSE r \in {init_genrand_range(half, (lo + hi) \div 2 + 1, hi) :
                          half \in {init_genrand_range(mt, lo, (lo + hi) \div 2)}} :
            TRUE
init_genrand(s) == init_genrand_range(<<s>>, 2, TwisterN)

\* init_by_array runs its loops with i = 1, ..., N - 1 and then i = 1 again;
\* after the turn for i = N - 1 the last word is copied to mt[0]
Wrapped(mt, i) == IF i = TwisterN - 1 THEN [mt EXCEPT ![1] = mt[TwisterN]] ELSE mt

\* first loop of init_by_array with a key of one word (j stays 0):
\* mt[i] = (mt[i] ^ ((mt[i-1] ^ (mt[i-1] >> 30)) * 1664525)) + init_key[0] + 0
KeyStep(mt, i, init_key) ==
    Wrapped([mt EXCEPT ![i + 1] =
                 Add32(Xor32(mt[i + 1], Mul32(SeedMix(mt[i]), <<25, 26125>>)), init_key)],
            i)

\* second loop: mt[i] = (mt[i] ^ ((mt[i-1] ^ (mt[i-1] >> 30)) * 1566083941)) - i
FinalStep(mt, i) ==
    Wrapped([mt EXCEPT ![i + 1] =
                 Sub32(Xor32(mt[i + 1], Mul32(SeedMix(mt[i]), <<23896, 35685>>)), i)],
            i)

\* the turns number lo to hi of the first loop (turn t has i = t, the last
\* turn, number N, has i = 1)
RECURSIVE KeyLoop(_, _, _, _)
KeyLoop(mt, lo, hi, init_key) ==
    IF lo > hi THEN mt
    ELSE IF lo = hi THEN KeyStep(mt, IF lo = TwisterN THEN 1 ELSE lo, init_key)
    ELSE CHOOSE r \in {KeyLoop(half, (lo + hi) \div 2 + 1, hi, init_key) :
                          half \in {KeyLoop(mt, lo, (lo + hi) \div 2, init_key)}} : TRUE

\* the turns number lo to hi of the second loop (turn t has i = t + 1, the
\* last turn, number N - 1, has i = 1)
RECURSIVE FinalLoop(_, _, _)
FinalLoop(mt, lo, hi) ==
    IF lo > hi THEN mt
    ELSE IF lo = hi THEN FinalStep(mt, IF lo = TwisterN - 1 THEN 1 ELSE lo + 1)
    ELSE CHOOSE r \in {FinalLoop(half, (lo + hi) \div 2 + 1, hi) :
                          half \in {FinalLoop(mt, lo, (lo + hi) \div 2)}} : TRUE

\* init_genrand(19650218), the same for every seed
GenrandWords == init_genrand(<<299, 54954>>)

\* random_seed for an int 0 <= sd < 2^31: init_by_array with the key [sd];
\* mt[0] = 0x80000000 at the end and the index stands at N
init_by_array(sd) ==
    CHOOSE r \in {[mt |-> [FinalLoop(keyed, 1, TwisterN - 1)
                              EXCEPT ![1] = <<32768, 0>>],
                   index |-> TwisterN] :
                      keyed \in {KeyLoop(words, 1, TwisterN,
                                         <<sd \div 65536, sd % 65536>>) :
                                     words \in {GenrandWords}}} : TRUE

\* one word of the next block: y = (mt[k] & 0x80000000) | (mt[k+1] & 0x7fffffff),
\* far ^ (y >> 1) ^ (y odd ? 0x9908b0df : 0)
TwistWord(cur, next, far) ==
    LET y == <<(cur[1] \div 32768) * 32768 + (next[1] % 32768), next[2]>>
    IN Xor32(Xor32(far, Shr32(y, 1)),
             IF y[2] % 2 = 1 THEN MatrixA ELSE <<0, 0>>)

\* genrand_uint32 when the block is used up: words 0 .. N-M-1 take the old
\* word M further on, the next words take the new word N-M back, the last
\* word takes the new mt[0] and the new mt[M-1]
TwistHead(mt) ==
    SubSeq([k \in 1..(TwisterN - TwisterM) |->
               TwistWord(mt[k], mt[k + 1], mt[k + TwisterM])],
           1, TwisterN - TwisterM)
TwistMiddle(mt, head) ==
    SubSeq([k \in 1..(TwisterN - TwisterM) |->
               TwistWord(mt[k + TwisterN - TwisterM], mt[k + TwisterN - TwisterM + 1],
                         head[k])],
           1, TwisterN - TwisterM)
TwistTail(mt, middle) ==
    SubSeq([k \in 1..(2 * TwisterM - TwisterN - 1) |->
               TwistWord(mt[k + 2 * (TwisterN - TwisterM)],
                         mt[k + 2 * (TwisterN - TwisterM) + 1], middle[k])],
           1, 2 * TwisterM - TwisterN - 1)
Twist(mt) ==
    LET head == TwistHead(mt)
        middle == TwistMiddle(mt, head)
        tail == TwistTail(mt, middle)
    IN head \o middle \o tail
           \o <<TwistWord(mt[TwisterN], head[1], middle[2 * TwisterM - TwisterN])>>

\* the tempering of genrand_uint32
Temper(y0) ==
    LET y1 == Xor32(y0, Shr32(y0, 11))
        y2 == Xor32(y1, And32(Shl32(y1, 7), TemperB))
        y3 == Xor32(y2, And32(Shl32(y2, 15), TemperC))
    IN Xor32(y3, Shr32(y3, 18))

\* genrand_uint32: the next word tempered, and the generator after it
genrand_uint32(g) ==
    LET h == IF g.index >= TwisterN THEN [mt |-> Twist(g.mt), index |-> 0] ELSE g
    IN [value |-> Temper(h.mt[h.index + 1]), rng |-> [h EXCEPT !.index = @ + 1]]

\* getrandbits(k), 0 < k < 32: genrand_uint32() >> (32 - k), as a number
getrandbits(g, k) ==
    LET w == genrand_uint32(g)
        bits == Shr32(w.value, 32 - k)
    IN [value |-> bits[1] * 65536 + bits[2], rng |-> w.rng]

\* the generator of the solver built before, kept as it is
random_carried(sd, prev) == prev

\* line 85, random.Random(self.seed): a generator whose state is given by the
\* seed alone (prev: the generator state the caller held before)
random_Random(sd, prev) == init_by_array(sd)

\* n.bit_length() for n >= 0
RECURSIVE bit_length(_)
bit_length(n) == IF n = 0 THEN 0 ELSE 1 + bit_length(n \div 2)

\* _randbelow(n), n > 0: getrandbits(n.bit_length()) until the value is below n
RECURSIVE randbelow(_, _)
randbelow(g, n) ==
    CHOOSE r \in {IF d.value < n THEN d ELSE randbelow(d.rng, n) :
                      d \in {getrandbits(g, bit_length(n))}} : TRUE

SwapAt(x, i, j) == [x EXCEPT ![i] = x[j], ![j] = x[i]]

\* one turn of the loop of shuffle(), for the 1-based position i:
\* j = randbelow(i); swap x[i], x[j]
ShuffleStep(st, i) ==
    CHOOSE r \in {[list |-> SwapAt(st.list, i, d.value + 1), rng |-> d.rng] :
                      d \in {randbelow(st.rng, i)}} : TRUE

\* the turns for the positions hi down to lo, the upper half of them first
RECURSIVE ShuffleDown(_, _, _)
ShuffleDown(st, hi, lo) ==
    IF hi < lo THEN st
    ELSE IF hi = lo THEN ShuffleStep(st, hi)
    ELSE CHOOSE r \in {ShuffleDown(half, (hi + lo) \div 2, lo) :
                          half \in {ShuffleDown(st, hi, (hi + lo) \div 2 + 1)}} :
            TRUE

\* for i in reversed(range(1, len(x))): j = randbelow(i + 1); swap x[i], x[j]
\* (i is the 1-based position here); returns the list and the generator state
ShuffleFrom(x, i, g) == ShuffleDown([list |-> x, rng |-> g], i, 2)

shuffle(x, g) == ShuffleFrom(x, Len(x), g)

RECURSIVE SelectNotUsed(_, _)
SelectNotUsed(names, u) ==
    IF names = <<>> THEN <<>>
    ELSE IF Head(names) \in u THEN SelectNotUsed(Tail(names), u)
    ELSE <<Head(names)>> \o SelectNotUsed(Tail(names), u)

SolveFrame ==
    [phase |-> "entry", names |-> <<>>, ni |-> 0, orients |-> <<>>, oi |-> 0,
     anchors |-> <<>>, ai |-> 0, name |-> None, shifted |-> <<>>,
     entry_board |-> board, entry_used |-> used]

\* the anchors of the current orientation after number f.ai that can be placed
SolveAnchors(f, anchor) ==
    IF f.oi = 0 THEN {}
    ELSE {a \in (f.ai + 1)..Len(f.anchors) :
            \A i \in DOMAIN f.orients[f.oi] :
                grid_cell_free(board, rows, cols,
                    ShiftedCell(f.orients[f.oi], f.anchors[a], anchor, i))}

\* the anchors after number f.ai of the orientation in hand are looked at:
\* the first that can be placed is the candidate found
ScanAnchors(f, g, anchor) ==
    LET V == SolveAnchors(f, anchor)
    IN IF V # {}
       THEN [found |-> TRUE, frame |-> [f EXCEPT !.ai = Min(V)], rng |-> g]
       ELSE [found |-> FALSE, frame |-> f, rng |-> g]

\* lines 126-134 for orientation number o of the name in hand, unless a
\* candidate was found before: the anchor list is shuffled and looked at
ScanOrient(st, o, anchor) ==
    IF st.found THEN st
    ELSE CHOOSE r \in
             {ScanAnchors([st.frame EXCEPT !.oi = o, !.anchors = sh.list,
                                           !.ai = 0], sh.rng, anchor) :
                 sh \in {shuffle(st.frame.orients[o], st.rng)}} : TRUE

\* the orientations number lo to hi in order, the first half of them first
RECURSIVE ScanOrients(_, _, _, _)
ScanOrients(st, lo, hi, anchor) ==
    IF lo > hi THEN st
    ELSE IF lo = hi THEN ScanOrient(st, lo, anchor)
    ELSE CHOOSE r \in {ScanOrients(half, (lo + hi) \div 2 + 1, hi, anchor) :
                          half \in {ScanOrients(st, lo, (lo + hi) \div 2,
                                                anchor)}} : TRUE

\* lines 123-134 for name number n, unless a candidate was found before: the
\* orientation list is shuffled and gone through
ScanName(st, n, anchor) ==
    IF st.found THEN st
    ELSE CHOOSE r \in
             {ScanOrients([found |-> FALSE,
                           frame |-> [st.frame EXCEPT !.ni = n,
                                         !.orients = sh.list, !.oi = 0,
                                         !.anchors = <<>>, !.ai = 0],
                           rng |-> sh.rng],
                          1, Len(sh.list), anchor) :
                 sh \in {shuffle(ORIENTATIONS[st.frame.names[n]], st.rng)}} : TRUE

\* the names number lo to hi in order, the first half of them first
RECURSIVE ScanNames(_, _, _, _)
ScanNames(st, lo, hi, anchor) ==
    IF lo > hi THEN st
    ELSE IF lo = hi THEN ScanName(st, lo, anchor)
    ELSE CHOOSE r \in {ScanNames(half, (lo + hi) \div 2 + 1, hi, anchor) :
                          half \in {ScanNames(st, lo, (lo + hi) \div 2,
                                              anchor)}} : TRUE

\* lines 123-134: run the three loops on from where frame f stands (shuffling
\* each orientation list and each anchor list as its loop is reached) up to
\* the next candidate that can be placed: the anchors left of the orientation
\* in hand, the orientations left of the name in hand, the names left
SolveScan(f, g, anchor) ==
    CHOOSE r \in
        {ScanNames(inName, f.ni + 1, Len(f.names), anchor) :
            inName \in {ScanOrients(ScanAnchors(f, g, anchor), f.oi + 1,
                                    Len(f.orients), anchor)}} : TRUE

\* lines 116-122: success check, then the shuffled list of unused names
SolveCall ==
    /\ prog = "solve" /\ pc = "run" /\ Top.phase = "entry"
    /\ IF grid_first_empty(board, rows, cols) = None
       THEN /\ Return(<<>>)
            /\ UNCHANGED rng
       ELSE \E sh \in {shuffle(SelectNotUsed(SortedNames, used), rng)} :
               /\ stack' = SetTop([Top EXCEPT !.phase = "loop", !.names = sh.list])
               /\ rng' = sh.rng
               /\ UNCHANGED <<ret, pc>>
    /\ UNCHANGED <<inputs, traceVars, board, used, events>>

\* lines 123-137 and 142: next placeable candidate, apply_place and the
\* recursive call; None when the loops run out
SolveLoop ==
    /\ prog = "solve" /\ pc = "run" /\ Top.phase = "loop"
    /\ \E anchor \in {grid_first_empty(board, rows, cols)} :
       \E s \in {SolveScan(Top, rng, anchor)} :
       LET f == s.frame
           name == f.names[f.ni]
           shifted == Shifted(f.orients[f.oi], f.anchors[f.ai], anchor)
       IN /\ rng' = s.rng
          /\ IF s.found
             THEN /\ board' = grid_apply_place(board, name, shifted)
                  /\ used' = used \cup {name}
                  /\ stack' = Append(
                         SetTop([f EXCEPT !.phase = "wait", !.name = name,
                                          !.shifted = shifted]),
                         [SolveFrame EXCEPT !.entry_board = board',
                                            !.entry_used = used'])
                  /\ UNCHANGED <<ret, pc>>
             ELSE /\ Return(None)
                  /\ UNCHANGED <<board, used>>
    /\ UNCHANGED <<inputs, traceVars, events>>

\* a resume that goes back to the anchor it has just taken off the board
SolveResumeAgain ==
    /\ prog = "solve" /\ pc = "run" /\ Top.phase = "wait"
    /\ IF ret # None
       THEN /\ Return(<< <<Top.name, Top.shifted>> >> \o ret)
            /\ UNCHANGED <<board, used>>
       ELSE /\ board' = grid_apply_remove(board, Top.shifted)
            /\ used' = used \ {Top.name}
            /\ stack' = SetTop([Top EXCEPT !.phase = "loop", !.ai = @ - 1])
            /\ ret' = NoRet
            /\ UNCHANGED pc
    /\ UNCHANGED <<inputs, traceVars, events, rng>>

\* solve() taking its piece off the board again before it hands a solution
\* back
SolveResumeRestoring ==
    /\ prog = "solve" /\ pc = "run" /\ Top.phase = "wait"
    /\ board' = grid_apply_remove(board, Top.shifted)
    /\ used' = used \ {Top.name}
    /\ IF ret # None
       THEN Return(<< <<Top.name, Top.shifted>> >> \o ret)
       ELSE /\ stack' = SetTop([Top EXCEPT !.phase = "loop"])
            /\ ret' = NoRet
            /\ UNCHANGED pc
    /\ UNCHANGED <<inputs, traceVars, events, rng>>

\* lines 137-140: the recursive call returned rest
SolveResume ==
    /\ prog = "solve" /\ pc = "run" /\ Top.phase = "wait"
    /\ IF ret # None
       THEN /\ Return(<< <<Top.name, Top.shifted>> >> \o ret)
            /\ UNCHANGED <<board, used>>
       ELSE /\ board' = grid_apply_remove(board, Top.shifted)
            /\ used' = used \ {Top.name}
            /\ stack' = SetTop([Top EXCEPT !.phase = "loop"])
            /\ ret' = NoRet
            /\ UNCHANGED pc
    /\ UNCHANGED <<inputs, traceVars, events, rng>>

(***************************************************************************)
(* build_trace: shared helpers (both trace modules define them alike)      *)
(***************************************************************************)
\* key(rc) = f"{r},{c}": the text of the row, a comma, the text of the column
key(rc) == <<rc[1], ",", rc[2]>>

KeySet(cells) == {key(cells[i]) : i \in DOMAIN cells}

\* the last free cell of smask instead of the first
mask_last_empty(smask, filled) ==
    IF \A i \in DOMAIN smask : key(smask[i]) \in filled THEN None
    ELSE smask[0 - Min({0 - i : i \in {k \in DOMAIN smask :
                                         key(smask[k]) \notin filled}})]

\* first_empty over smask
mask_first_empty(smask, filled) ==
    IF \A i \in DOMAIN smask : key(smask[i]) \in filled THEN None
    ELSE smask[Min({i \in DOMAIN smask : key(smask[i]) \notin filled})]

\* the mask test alone: a filled cell passes
mask_cell_in_mask(akeys, filled, rc) == key(rc) \in akeys

\* one iteration of can_place's loop
mask_cell_free(akeys, filled, rc) ==
    ~(key(rc) \notin akeys \/ key(rc) \in filled)

mask_can_place(akeys, filled, cells) ==
    \A i \in DOMAIN cells : mask_cell_free(akeys, filled, cells[i])

\* apply / unapply on the dict board and on filled_keys
dict_apply(b, name, cells) ==
    [rc \in (DOMAIN b) \cup CellSet(cells) |->
        IF rc \in CellSet(cells) THEN name ELSE b[rc]]

\* an unapply that leaves the cells on the board
dict_unapply_none(b, cells) == b

dict_unapply(b, cells) == [rc \in (DOMAIN b) \ CellSet(cells) |-> b[rc]]

keys_apply(filled, cells) == filled \cup KeySet(cells)

keys_unapply(filled, cells) == filled \ KeySet(cells)

\* the vertical neighbours alone
DeltasVertical == << <<-1, 0>>, <<1, 0>> >>

\* the neighbour to the left is not looked at
DeltasNoLeft == << <<-1, 0>>, <<1, 0>>, <<0, 1>> >>

Deltas == << <<-1, 0>>, <<1, 0>>, <<0, -1>>, <<0, 1>> >>

\* the for-loop over deltas at one popped cell: push the unvisited free
\* neighbours
RECURSIVE PushNeighbours(_, _, _, _, _, _, _, _)
PushNeighbours(r, c, akeys, filled, cur, d, stk, visited) ==
    IF d > Len(Deltas) THEN [stk |-> stk, visited |-> visited]
    ELSE LET nr == cur[1] + Deltas[d][1]
             nc == cur[2] + Deltas[d][2]
             kk == key(<<nr, nc>>)
         IN IF nr < 0 \/ nr >= r \/ nc < 0 \/ nc >= c
            THEN PushNeighbours(r, c, akeys, filled, cur, d + 1, stk, visited)
            ELSE IF kk \notin akeys \/ kk \in filled \/ kk \in visited
            THEN PushNeighbours(r, c, akeys, filled, cur, d + 1, stk, visited)
            ELSE PushNeighbours(r, c, akeys, filled, cur, d + 1,
                                Append(stk, <<nr, nc>>), visited \cup {kk})

\* while stack: pop, count, push neighbours
RECURSIVE Flood(_, _, _, _, _, _, _)
Flood(r, c, akeys, filled, stk, visited, region_size) ==
    IF stk = <<>> THEN [size |-> region_size, visited |-> visited]
    ELSE LET cur == stk[Len(stk)]
             p == PushNeighbours(r, c, akeys, filled, cur, 1,
                                 SubSeq(stk, 1, Len(stk) - 1), visited)
         IN Flood(r, c, akeys, filled, p.stk, p.visited, region_size + 1)

\* the for-loop over smask
RECURSIVE VoidRegions(_, _, _, _, _, _, _)
VoidRegions(r, c, akeys, smask, filled, i, visited) ==
    IF i > Len(smask) THEN TRUE
    ELSE LET start == key(smask[i])
         IN IF start \in filled \/ start \in visited
            THEN VoidRegions(r, c, akeys, smask, filled, i + 1, visited)
            ELSE LET f == Flood(r, c, akeys, filled, <<smask[i]>>,
                                visited \cup {start}, 0)
                 IN IF f.size % 5 # 0 THEN FALSE
                    ELSE VoidRegions(r, c, akeys, smask, filled,
                                     i + 1, f.visited)

\* an oracle that rejects every board
oracle_rejects_all(r, c, akeys, smask, filled) == FALSE

\* an oracle that passes every board
oracle_passes_all(r, c, akeys, smask, filled) == TRUE

has_only_five_multiple_void_regions(r, c, akeys, smask, filled) ==
    VoidRegions(r, c, akeys, smask, filled, 1, {})

ExtendNodes(ns, nid, node) ==
    [i \in (DOMAIN ns) \cup {nid} |-> IF i = nid THEN node ELSE ns[i]]

\* nodes[parent_id].children.append(nid)
AddChild(ns, parent_id, nid) ==
    IF parent_id = NoId THEN ns
    ELSE [ns EXCEPT ![parent_id].children = Append(@, nid)]

EnterEvent(nid) == [kind |-> "enter", node_id |-> nid]
ExitEvent(nid) == [kind |-> "exit", node_id |-> nid]

\* the exit bookkeeping of a displayed call: elapsed_ms, explored_subnodes
FinishNode(ns, nid, explored) ==
    [ns EXCEPT ![nid].elapsed_ms = "set", ![nid].explored_subnodes = explored]

Max0(n) == IF n > 0 THEN n ELSE 0

\* the result of a dfs call that leaves a call stopped by the budget out of
\* the count
DfsResultStoppedUncounted(solved, subtree_nodes, aborted) ==
    [solved |-> solved,
     count |-> IF aborted THEN subtree_nodes - 1 ELSE subtree_nodes,
     aborted |-> aborted]

\* the result of a dfs call with the aborted flag dropped
DfsResultUnflagged(solved, subtree_nodes, aborted) ==
    [solved |-> solved, count |-> subtree_nodes, aborted |-> FALSE]

DfsResult(solved, subtree_nodes, aborted) ==
    [solved |-> solved, count |-> subtree_nodes, aborted |-> aborted]

(***************************************************************************)
(* build_trace of triplication_dfs_tree.py                                 *)
(***************************************************************************)
trip_create_node(ns, nid, parent_id, depth, b) ==
    AddChild(ExtendNodes(ns, nid,
                 [node_id |-> nid, parent_id |-> parent_id, depth |-> depth,
                  board |-> b, children |-> <<>>, elapsed_ms |-> None,
                  explored_subnodes |-> 0]),
             parent_id, nid)

TripFrame(depth, display_node_id) ==
    [phase |-> "entry", depth |-> depth, display_node_id |-> display_node_id,
     pos |-> 0, shown_children |-> 0, subtree_nodes |-> 1,
     name |-> None, shifted |-> <<>>,
     entry_board |-> board, entry_used |-> used, entry_keys |-> filled_keys,
     entry_counter |-> node_counter]

\* lines 268-287: the loops run from the candidate after number pos up to the
\* next one that can be placed and, with pruning, passes the oracle
RECURSIVE TripScan(_, _, _)
TripScan(cands, pos, anchor) ==
    IF pos >= Len(cands) THEN 0
    ELSE LET V == Listed({j \in (pos + 1)..ChunkEnd(cands, pos) :
                /\ cands[j].name \notin used
                /\ \A i \in DOMAIN cands[j].orient :
                      mask_cell_free(allowed_keys, filled_keys,
                          ShiftedCell(cands[j].orient, cands[j].cell, anchor, i))
                /\ enable_pruning =>
                      has_only_five_multiple_void_regions(rows, cols,
                          allowed_keys, sorted_mask,
                          keys_apply(filled_keys,
                              Shifted(cands[j].orient, cands[j].cell, anchor)))})
         IN IF V # {} THEN Min(V) ELSE TripScan(cands, ChunkEnd(cands, pos), anchor)

\* the exit event of the frame's display node, if it has one
TripExit(f, explored) ==
    IF f.display_node_id = NoId
    THEN /\ UNCHANGED <<nodes, events>>
    ELSE /\ nodes' = FinishNode(nodes, f.display_node_id, explored)
         /\ events' = Append(events, ExitEvent(f.display_node_id))

\* lines 248-266
TripCall ==
    /\ prog = "trip" /\ pc = "run" /\ Top.phase = "entry"
    /\ node_counter' = node_counter + 1
    /\ IF node_counter' > max_nodes
       THEN /\ Return(DfsResult(FALSE, 1, TRUE))
            /\ UNCHANGED <<nodes, events>>
       ELSE IF mask_first_empty(sorted_mask, filled_keys) = None
       THEN /\ TripExit(Top, 0)
            /\ Return(DfsResult(TRUE, 1, FALSE))
       ELSE /\ stack' = SetTop([Top EXCEPT !.phase = "loop"])
            /\ UNCHANGED <<nodes, events, ret, pc>>
    /\ UNCHANGED <<inputs, board, used, filled_keys, next_node_id,
                   step_elapsed_ms, tried, rng>>

\* lines 268-300 and 322-328
TripLoop ==
    /\ prog = "trip" /\ pc = "run" /\ Top.phase = "loop"
    /\ \E anchor \in {mask_first_empty(sorted_mask, filled_keys)} :
       \E cands \in {FlattenNames(selected_pieces, 1)} :
       \E j \in {TripScan(cands, Top.pos, anchor)} :
       IF j = 0
       THEN /\ TripExit(Top, Max0(Top.subtree_nodes - 1))
            /\ Return(DfsResult(FALSE, Top.subtree_nodes, FALSE))
            /\ UNCHANGED <<board, used, filled_keys, next_node_id, tried>>
       ELSE \E shifted \in {Shifted(cands[j].orient, cands[j].cell, anchor)} :
            LET name == cands[j].name
                shown == /\ Top.display_node_id # NoId
                         /\ Top.depth < max_display_depth
                         /\ Top.shown_children < max_display_children
                child_display_id == IF shown THEN next_node_id ELSE NoId
            IN /\ used' = used \cup {name}
               /\ filled_keys' = keys_apply(filled_keys, shifted)
               /\ board' = dict_apply(board, name, shifted)
               /\ tried' = Append(tried, <<name, shifted>>)
               /\ IF shown
                  THEN /\ nodes' = trip_create_node(nodes, next_node_id,
                                       Top.display_node_id, Top.depth + 1, board')
                       /\ events' = Append(events, EnterEvent(next_node_id))
                       /\ next_node_id' = next_node_id + 1
                  ELSE UNCHANGED <<nodes, events, next_node_id>>
               /\ stack' = Append(
                      SetTop([Top EXCEPT !.phase = "wait", !.pos = j,
                                !.name = name, !.shifted = shifted,
                                !.shown_children =
                                    IF shown THEN @ + 1 ELSE @]),
                      [TripFrame(Top.depth + 1, child_display_id)
                          EXCEPT !.entry_board = board', !.entry_used = used',
                                 !.entry_keys = filled_keys'])
               /\ UNCHANGED <<ret, pc>>
    /\ UNCHANGED <<inputs, node_counter, step_elapsed_ms, rng>>

\* lines 299-320: the recursive call returned
TripResume ==
    /\ prog = "trip" /\ pc = "run" /\ Top.phase = "wait"
    /\ LET subtree == Top.subtree_nodes + ret.count
       IN /\ used' = used \ {Top.name}
          /\ filled_keys' = keys_unapply(filled_keys, Top.shifted)
          /\ board' = dict_unapply(board, Top.shifted)
          /\ IF ret.aborted
             THEN /\ TripExit(Top, Max0(subtree - 1))
                  /\ Return(DfsResult(FALSE, subtree, TRUE))
             ELSE IF ret.solved
             THEN /\ TripExit(Top, Max0(subtree - 1))
                  /\ Return(DfsResult(TRUE, subtree, FALSE))
             ELSE /\ stack' = SetTop([Top EXCEPT !.phase = "loop",
                                                 !.subtree_nodes = subtree])
                  /\ ret' = NoRet
                  /\ UNCHANGED <<nodes, events, pc>>
    /\ UNCHANGED <<inputs, next_node_id, node_counter, step_elapsed_ms, tried, rng>>

(***************************************************************************)
(* build_trace of rect_6x10_dfs_tree.py                                    *)
(***************************************************************************)
DEFAULT_DISPLAY_DEPTH == 3
RIGHTMOST_BRANCH_DEPTH == 12

\* create_node with the pruned flag left at its default
rect_create_node_unflagged(ns, nid, parent_id, depth, b, pruned, rightmost_chain, step) ==
    AddChild(ExtendNodes(ns, nid,
                 [node_id |-> nid, parent_id |-> parent_id, depth |-> depth,
                  board |-> b, pruned |-> FALSE, counterfactual |-> FALSE,
                  rightmost_chain |-> rightmost_chain, step_at_enter |-> step,
                  children |-> <<>>, elapsed_ms |-> None,
                  explored_subnodes |-> 0]),
             parent_id, nid)

rect_create_node(ns, nid, parent_id, depth, b, pruned, rightmost_chain, step) ==
    AddChild(ExtendNodes(ns, nid,
                 [node_id |-> nid, parent_id |-> parent_id, depth |-> depth,
                  board |-> b, pruned |-> pruned, counterfactual |-> FALSE,
                  rightmost_chain |-> rightmost_chain, step_at_enter |-> step,
                  children |-> <<>>, elapsed_ms |-> None,
                  explored_subnodes |-> 0]),
             parent_id, nid)

\* the k-th smallest element of a set of numbers
KthOf(S, k) == CHOOSE j \in S : Cardinality({i \in S : i <= j}) = k

\* lines 377-400: every candidate that can be placed, tagged by the oracle
Attempts(cands, anchor) ==
    LET V == Listed({j \in DOMAIN cands :
                /\ cands[j].name \notin used
                /\ \A i \in DOMAIN cands[j].orient :
                      mask_cell_free(allowed_keys, filled_keys,
                          ShiftedCell(cands[j].orient, cands[j].cell, anchor, i))})
    IN [k \in 1..Cardinality(V) |->
          LET j == KthOf(V, k)
              shifted == Shifted(cands[j].orient, cands[j].cell, anchor)
              passes == IF enable_pruning
                        THEN has_only_five_multiple_void_regions(rows, cols,
                                 allowed_keys, sorted_mask,
                                 keys_apply(filled_keys, shifted))
                        ELSE TRUE
          IN [kind |-> IF passes THEN "valid" ELSE "pruned",
              name |-> cands[j].name, shifted |-> shifted]]

\* solve_first's loops from the candidate after number pos up to the next
\* one that can be placed (0: none is left)
RECURSIVE SfScan(_, _, _)
SfScan(cands, pos, anchor) ==
    IF pos >= Len(cands) THEN 0
    ELSE LET V == Listed({j \in (pos + 1)..ChunkEnd(cands, pos) :
                /\ cands[j].name \notin used
                /\ \A i \in DOMAIN cands[j].orient :
                      mask_cell_free(allowed_keys, filled_keys,
                          ShiftedCell(cands[j].orient, cands[j].cell, anchor, i))})
         IN IF V # {} THEN Min(V)
            ELSE SfScan(cands, ChunkEnd(cands, pos), anchor)

\* the frame of a solve_first(first_move) call
SolveFirstFrame(first_move) ==
    [phase |-> "sf_entry", first_move |-> first_move, pos |-> 0,
     name |-> None, shifted |-> <<>>,
     entry_board |-> board, entry_used |-> used, entry_keys |-> filled_keys]

\* lines 408-410: a full board hands first_move back
SolveFirstCall ==
    /\ prog = "rect" /\ pc = "run" /\ Top.phase = "sf_entry"
    /\ IF mask_first_empty(sorted_mask, filled_keys) = None
       THEN Return(Top.first_move)
       ELSE /\ stack' = SetTop([Top EXCEPT !.phase = "sf_loop"])
            /\ UNCHANGED <<ret, pc>>
    /\ UNCHANGED <<inputs, board, used, filled_keys, events, nodes,
                   next_node_id, node_counter, step_elapsed_ms, tried, rng>>

\* lines 412-440: the next candidate that can be placed is applied; one the
\* oracle rejects is taken off again, one it passes is searched; the end of
\* the loops returns None
SolveFirstLoop ==
    /\ prog = "rect" /\ pc = "run" /\ Top.phase = "sf_loop"
    /\ \E spot \in {mask_first_empty(sorted_mask, filled_keys)} :
       \E cands \in {FlattenNames(selected_pieces, 1)} :
       \E j \in {SfScan(cands, Top.pos, spot)} :
          IF j = 0
          THEN /\ Return(None)
               /\ UNCHANGED <<board, used, filled_keys>>
          ELSE LET sname == cands[j].name
                   sshifted == Shifted(cands[j].orient, cands[j].cell, spot)
                   ok == IF enable_pruning
                         THEN has_only_five_multiple_void_regions(rows, cols,
                                  allowed_keys, sorted_mask,
                                  keys_apply(filled_keys, sshifted))
                         ELSE TRUE
                   next_first == IF Top.first_move # None THEN Top.first_move
                                 ELSE <<sname, sshifted>>
               IN IF ok
                  THEN /\ used' = used \cup {sname}
                       /\ filled_keys' = keys_apply(filled_keys, sshifted)
                       /\ board' = dict_apply(board, sname, sshifted)
                       /\ stack' = Append(
                              SetTop([Top EXCEPT !.phase = "sf_wait", !.pos = j,
                                        !.name = sname, !.shifted = sshifted]),
                              [SolveFirstFrame(next_first)
                                  EXCEPT !.entry_board = board',
                                         !.entry_used = used',
                                         !.entry_keys = filled_keys'])
                       /\ UNCHANGED <<ret, pc>>
                  ELSE /\ used' = (used \cup {sname}) \ {sname}
                       /\ filled_keys' = keys_unapply(
                              keys_apply(filled_keys, sshifted), sshifted)
                       /\ board' = dict_unapply(
                              dict_apply(board, sname, sshifted), sshifted)
                       /\ stack' = SetTop([Top EXCEPT !.pos = j])
                       /\ UNCHANGED <<ret, pc>>
    /\ UNCHANGED <<inputs, events, nodes, next_node_id, node_counter,
                   step_elapsed_ms, tried, rng>>

\* lines 434-440: the inner call returned got; the placement is taken off,
\* a move is handed on, None goes on with the loops
SolveFirstResume ==
    /\ prog = "rect" /\ pc = "run" /\ Top.phase = "sf_wait"
    /\ used' = used \ {Top.name}
    /\ filled_keys' = keys_unapply(filled_keys, Top.shifted)
    /\ board' = dict_unapply(board, Top.shifted)
    /\ IF ret # None
       THEN Return(ret)
       ELSE /\ stack' = SetTop([Top EXCEPT !.phase = "sf_loop"])
            /\ ret' = NoRet
            /\ UNCHANGED pc
    /\ UNCHANGED <<inputs, events, nodes, next_node_id, node_counter,
                   step_elapsed_ms, tried, rng>>

\* the last valid attempt whatever solution_next_move() found
RightmostIdxLast(attempts, next_move) ==
    LET valid_indices == {i \in 0..(Len(attempts) - 1) :
                             attempts[i + 1].kind = "valid"}
    IN IF valid_indices # {}
       THEN CHOOSE i \in valid_indices : \A o \in valid_indices : o <= i
       ELSE Len(attempts) - 1

\* lines 449-463: the index (from 0) of the attempt shown as rightmost
RightmostIdx(attempts, next_move) ==
    LET valid_indices == {i \in 0..(Len(attempts) - 1) :
                             attempts[i + 1].kind = "valid"}
        M == IF next_move = None THEN {}
             ELSE {i \in valid_indices :
                     /\ attempts[i + 1].name = next_move[1]
                     /\ attempts[i + 1].shifted = next_move[2]}
    IN IF M # {} THEN Min(M)
       ELSE IF valid_indices # {}
       THEN CHOOSE i \in valid_indices : \A o \in valid_indices : o <= i
       ELSE Len(attempts) - 1

\* every attempt displayed
DisplayIndicesAll(attempts, parent_chain, rightmost_idx) ==
    0..(Len(attempts) - 1)

\* lines 464-470
DisplayIndices(attempts, parent_chain, rightmost_idx) ==
    IF parent_chain THEN {rightmost_idx}
    ELSE IF Len(attempts) <= max_display_children
    THEN 0..(Len(attempts) - 1)
    ELSE {0, 1, rightmost_idx}

RectFrame(depth, display_node_id) ==
    [phase |-> "entry", depth |-> depth, display_node_id |-> display_node_id,
     attempts |-> <<>>, display_indices |-> {}, rightmost_idx |-> -1,
     idx |-> -1, subtree_nodes |-> 1, found_solution |-> FALSE,
     name |-> None, shifted |-> <<>>,
     entry_board |-> board, entry_used |-> used, entry_keys |-> filled_keys,
     entry_counter |-> node_counter]

RectExit(f, explored) ==
    IF f.display_node_id = NoId
    THEN /\ UNCHANGED <<nodes, events>>
    ELSE /\ nodes' = FinishNode(nodes, f.display_node_id, explored)
         /\ events' = Append(events, ExitEvent(f.display_node_id))

ParentIsChain(f) ==
    IF f.display_node_id # NoId THEN nodes[f.display_node_id].rightmost_chain
    ELSE FALSE

\* lines 358-447: budget check, success check, the attempts list; a
\* displayed call that may show children asks solution_next_move()
RectCall ==
    /\ prog = "rect" /\ pc = "run" /\ Top.phase = "entry"
    /\ node_counter' = node_counter + 1
    /\ step_elapsed_ms' = Append(step_elapsed_ms, "ms")
    /\ IF node_counter' > max_nodes
       THEN /\ Return(DfsResult(FALSE, 1, TRUE))
            /\ UNCHANGED <<nodes, events, board, used, filled_keys>>
       ELSE IF mask_first_empty(sorted_mask, filled_keys) = None
       THEN /\ RectExit(Top, 0)
            /\ Return(DfsResult(TRUE, 1, FALSE))
            /\ UNCHANGED <<board, used, filled_keys>>
       ELSE \E cands \in {FlattenNames(selected_pieces, 1)} :
            \E attempts \in {Attempts(cands,
                                mask_first_empty(sorted_mask, filled_keys))} :
            LET can_display_children ==
                    /\ Top.display_node_id # NoId
                    /\ Top.depth < (IF nodes[Top.display_node_id].rightmost_chain
                                    THEN RIGHTMOST_BRANCH_DEPTH
                                    ELSE DEFAULT_DISPLAY_DEPTH)
            IN IF can_display_children /\ attempts # <<>>
               THEN /\ stack' = Append(
                           SetTop([Top EXCEPT !.phase = "display",
                                              !.attempts = attempts]),
                           SolveFirstFrame(None))
                    /\ UNCHANGED <<nodes, events, ret, pc, board, used,
                                   filled_keys>>
               ELSE /\ stack' = SetTop([Top EXCEPT !.phase = "loop",
                                                   !.attempts = attempts])
                    /\ UNCHANGED <<nodes, events, ret, pc, board, used,
                                   filled_keys>>
    /\ UNCHANGED <<inputs, next_node_id, tried, rng>>

\* lines 444-470: solution_next_move() returned next_move; the rightmost
\* attempt and the attempts to display are chosen
RectDisplay ==
    /\ prog = "rect" /\ pc = "run" /\ Top.phase = "display"
    /\ \E rightmost_idx \in {RightmostIdx(Top.attempts, ret)} :
          stack' = SetTop([Top EXCEPT
                      !.phase = "loop",
                      !.rightmost_idx = rightmost_idx,
                      !.display_indices =
                          DisplayIndices(Top.attempts, ParentIsChain(Top),
                                         rightmost_idx)])
    /\ ret' = NoRet
    /\ UNCHANGED <<inputs, board, used, filled_keys, events, nodes, pc,
                   next_node_id, node_counter, step_elapsed_ms, tried, rng>>

\* lines 474-508 and 533-541: the next displayed attempt (a pruned one gets
\* its terminal node, a valid one is applied and searched), or the end of
\* the loop
RectLoop ==
    /\ prog = "rect" /\ pc = "run" /\ Top.phase = "loop"
    /\ LET rest == {i \in Top.display_indices :
                       i > Top.idx /\ i < Len(Top.attempts)}
       IN IF rest = {}
          THEN /\ RectExit(Top, Max0(Top.subtree_nodes - 1))
               /\ Return(DfsResult(Top.found_solution, Top.subtree_nodes, FALSE))
               /\ UNCHANGED <<board, used, filled_keys, next_node_id, tried>>
          ELSE \E idx \in {Min(rest)} :
               LET a == Top.attempts[idx + 1]
                   chain_root_ok == Top.depth = 0 \/ ParentIsChain(Top)
                   child_on_chain == chain_root_ok /\ idx = Top.rightmost_idx
                   shown == Top.display_node_id # NoId
               IN IF a.kind = "pruned"
                  THEN /\ IF shown
                          THEN /\ nodes' = rect_create_node(nodes, next_node_id,
                                      Top.display_node_id, Top.depth + 1,
                                      dict_apply(board, a.name, a.shifted),
                                      TRUE, child_on_chain, node_counter)
                               /\ events' = events \o <<EnterEvent(next_node_id),
                                                        ExitEvent(next_node_id)>>
                               /\ next_node_id' = next_node_id + 1
                          ELSE UNCHANGED <<nodes, events, next_node_id>>
                       /\ stack' = SetTop([Top EXCEPT !.idx = idx])
                       /\ UNCHANGED <<board, used, filled_keys, tried, ret, pc>>
                  ELSE /\ used' = used \cup {a.name}
                       /\ filled_keys' = keys_apply(filled_keys, a.shifted)
                       /\ board' = dict_apply(board, a.name, a.shifted)
                       /\ tried' = Append(tried, <<a.name, a.shifted>>)
                       /\ IF shown
                          THEN /\ nodes' = rect_create_node(nodes, next_node_id,
                                      Top.display_node_id, Top.depth + 1, board',
                                      FALSE, child_on_chain, node_counter)
                               /\ events' = Append(events, EnterEvent(next_node_id))
                               /\ next_node_id' = next_node_id + 1
                          ELSE UNCHANGED <<nodes, events, next_node_id>>
                       /\ stack' = Append(
                              SetTop([Top EXCEPT !.phase = "wait", !.idx = idx,
                                        !.name = a.name, !.shifted = a.shifted]),
                              [RectFrame(Top.depth + 1,
                                         IF shown THEN next_node_id ELSE NoId)
                                  EXCEPT !.entry_board = board',
                                         !.entry_used = used',
                                         !.entry_keys = filled_keys'])
                       /\ UNCHANGED <<ret, pc>>
    /\ UNCHANGED <<inputs, node_counter, step_elapsed_ms, rng>>

\* lines 508-531: the recursive call returned
RectResume ==
    /\ prog = "rect" /\ pc = "run" /\ Top.phase = "wait"
    /\ LET subtree == Top.subtree_nodes + ret.count
       IN /\ used' = used \ {Top.name}
          /\ filled_keys' = keys_unapply(filled_keys, Top.shifted)
          /\ board' = dict_unapply(board, Top.shifted)
          /\ IF ret.aborted
             THEN /\ RectExit(Top, Max0(subtree - 1))
                  /\ Return(DfsResult(FALSE, subtree, TRUE))
             ELSE IF ret.solved /\ ParentIsChain(Top)
             THEN /\ RectExit(Top, Max0(subtree - 1))
                  /\ Return(DfsResult(TRUE, subtree, FALSE))
             ELSE /\ stack' = SetTop([Top EXCEPT
                         !.phase = "loop", !.subtree_nodes = subtree,
                         !.found_solution = IF ret.solved THEN TRUE ELSE @])
                  /\ ret' = NoRet
                  /\ UNCHANGED <<nodes, events, pc>>
    /\ UNCHANGED <<inputs, next_node_id, node_counter, step_elapsed_ms, tried, rng>>

(***************************************************************************)
(* Tilings, stated without the searches: sets of cells, the eight          *)
(* symmetries of the grid written out, the last empty cell covered first.  *)
(***************************************************************************)
Sym(k, p) ==
    LET a == IF k < 4 THEN p ELSE <<p[2], p[1]>>
    IN <<IF k % 2 = 0 THEN a[1] ELSE 0 - a[1],
         IF (k \div 2) % 2 = 0 THEN a[2] ELSE 0 - a[2]>>

ToOrigin(S) ==
    LET mr == Min({p[1] : p \in S})
        mc == Min({p[2] : p \in S})
    IN {<<p[1] - mr, p[2] - mc>> : p \in S}

Shapes == [n \in PieceNames |->
              {ToOrigin({Sym(k, p) : p \in CellSet(PENTOMINOES[n])}) : k \in 0..7}]

\* shape S moved so that its cell q lies on cell t
MovedTo(S, q, t) == {<<p[1] + t[1] - q[1], p[2] + t[2] - q[2]>> : p \in S}

LastCell(E) == CHOOSE x \in E : \A y \in E : ~CellLess(x, y)

\* the cells E can be covered exactly by pentominoes named in names, no cell
\* twice; with distinct, no name twice
RECURSIVE CanTile(_, _, _)
CanTile(E, names, distinct) ==
    IF E = {} THEN TRUE
    ELSE \E n \in names : \E S \in Shapes[n] : \E q \in S :
            LET P == MovedTo(S, q, LastCell(E))
            IN /\ P \subseteq E
               /\ CanTile(E \ P, IF distinct THEN names \ {n} ELSE names, distinct)

(***************************************************************************)
(* Entry points and their inputs.                                          *)
(***************************************************************************)
StepBudgets == (0..MaxSteps) \cup {FullSteps}

\* the entry point is called on its own
NoCaller ==
    /\ caller = "none" /\ count = 0 /\ max_attempts = 0
    /\ attempt = 0 /\ unique = <<>>

InitCommon ==
    /\ NoCaller
    /\ rows \in 1..MaxRows /\ cols \in 1..MaxCols
    /\ rows * cols <= MaxCells
    /\ used = {} /\ events = <<>> /\ ret = NoRet /\ pc = "run"
    /\ delivered = <<>>
    /\ filled_keys = {} /\ nodes = <<>> /\ next_node_id = 0
    /\ node_counter = 0 /\ step_elapsed_ms = <<>> /\ tried = <<>>

\* the frame of the outermost search() call
SearchStartStack ==
    <<[phase |-> "entry", pos |-> 0, name |-> None,
       shifted |-> <<>>, entry_board |-> EmptyGrid(rows, cols),
       entry_used |-> {}]>>

InitSearch ==
    /\ InitCommon
    /\ prog = "search"
    /\ max_steps \in StepBudgets
    /\ seed = 0 /\ rng = 0
    /\ mask_cells = <<>> /\ selected_pieces = <<>>
    /\ sorted_mask = <<>> /\ allowed_keys = {}
    /\ enable_pruning = FALSE /\ max_display_depth = 0
    /\ max_display_children = 0 /\ max_nodes = 0
    /\ board = EmptyGrid(rows, cols)
    /\ stack = SearchStartStack

NextSearch == SearchCall \/ SearchLoop \/ SearchResume

SpecSearch == InitSearch /\ [][NextSearch]_vars

InitSolve ==
    /\ InitCommon
    /\ prog = "solve"
    /\ seed \in 0..MaxSeed /\ rng = init_by_array(seed)
    /\ max_steps = 0
    /\ mask_cells = <<>> /\ selected_pieces = <<>>
    /\ sorted_mask = <<>> /\ allowed_keys = {}
    /\ enable_pruning = FALSE /\ max_display_depth = 0
    /\ max_display_children = 0 /\ max_nodes = 0
    /\ board = EmptyGrid(rows, cols)
    /\ stack = <<[phase |-> "entry", names |-> <<>>, ni |-> 0, orients |-> <<>>,
                  oi |-> 0, anchors |-> <<>>, ai |-> 0, name |-> None,
                  shifted |-> <<>>, entry_board |-> EmptyGrid(rows, cols),
                  entry_used |-> {}]>>

NextSolve == SolveCall \/ SolveLoop \/ SolveResume

SpecSolve == InitSolve /\ [][NextSolve]_vars

(***************************************************************************)
(* Problems handed to build_trace.                                         *)
(***************************************************************************)
\* the full rectangle, row by row
FullMask(r, c) == [k \in 1..(r * c) |-> <<(k - 1) \div c, (k - 1) % c>>]

\* the rectangle without its top-left cell, listed from the last cell back
NotchMask(r, c) ==
    [k \in 1..(r * c - 1) |-> <<(r * c - k) \div c, (r * c - k) % c>>]

\* the irregular mask only while it has at most MaxNotchCells cells
Masks(r, c) ==
    {FullMask(r, c)} \cup
        (IF r * c - 1 <= MaxNotchCells THEN {NotchMask(r, c)} ELSE {})

\* selected_pieces of the triplication scene
TripPieces == <<"T", "I", "P", "X", "W", "U", "Y", "N", "V">>

PieceLists == {PieceKeys, TripPieces}

\* the defaults of build_trace's max_display_depth and max_display_children
DefaultMaxDisplayDepth == 3
DefaultMaxDisplayChildren == 3

\* the display caps: every depth cap with the default fan-out cap and every
\* fan-out cap with the default depth cap
DisplayCaps ==
    {<<d, DefaultMaxDisplayChildren>> : d \in 0..MaxDisplayDepth}
        \cup {<<DefaultMaxDisplayDepth, c>> : c \in 0..MaxDisplayChildren}

NodeBudgets == (0..MaxNodes) \cup {FullNodes}

\* (max_display_depth, max_display_children, max_nodes): every pair of caps
\* with the full budget, every budget with the default caps
TraceParams ==
    {<<cap[1], cap[2], FullNodes>> : cap \in DisplayCaps}
        \cup {<<DefaultMaxDisplayDepth, DefaultMaxDisplayChildren, n>> :
                  n \in NodeBudgets}

\* the smallest rectangle that takes four pieces, with four pieces that
\* cover it: the one problem whose search goes four placements deep
DeepProblem == [rows |-> 4, cols |-> 5, pieces |-> <<"L", "P", "V", "Y">>]

InitTrace(lists) ==
    /\ \/ /\ rows \in 1..MaxRows /\ cols \in 1..MaxCols
          /\ rows * cols <= MaxCells
          /\ mask_cells \in Masks(rows, cols)
          /\ selected_pieces \in lists
       \/ /\ rows = DeepProblem.rows /\ cols = DeepProblem.cols
          /\ mask_cells = FullMask(rows, cols)
          /\ selected_pieces = DeepProblem.pieces
    /\ sorted_mask = SortedCells(mask_cells)
    /\ allowed_keys = KeySet(mask_cells)
    /\ enable_pruning \in BOOLEAN
    /\ \E par \in TraceParams :
          /\ max_display_depth = par[1]
          /\ max_display_children = par[2]
          /\ max_nodes = par[3]
    /\ max_steps = 0 /\ seed = 0 /\ rng = 0
    /\ used = {} /\ filled_keys = {} /\ board = <<>> /\ tried = <<>>
    /\ ret = NoRet /\ pc = "run" /\ delivered = <<>>
    /\ NoCaller

\* lines 330-331: root_id = create_node(None, 0); dfs(0, root_id)
TripRootNodes == trip_create_node(<<>>, 0, NoId, 0, <<>>)

TripStartStack ==
    <<[phase |-> "entry", depth |-> 0, display_node_id |-> 0,
       pos |-> 0, shown_children |-> 0, subtree_nodes |-> 1,
       name |-> None, shifted |-> <<>>,
       entry_board |-> <<>>, entry_used |-> {}, entry_keys |-> {},
       entry_counter |-> 0]>>

InitTrip ==
    /\ InitTrace(PieceLists)
    /\ prog = "trip"
    /\ nodes = TripRootNodes
    /\ events = <<EnterEvent(0)>>
    /\ next_node_id = 1 /\ node_counter = 0
    /\ step_elapsed_ms = <<>>
    /\ stack = TripStartStack

NextTrip == TripCall \/ TripLoop \/ TripResume

SpecTrip == InitTrip /\ [][NextTrip]_vars

\* lines 303-305 and 543-544
RectRootNodes == rect_create_node(<<>>, 0, NoId, 0, <<>>, FALSE, FALSE, 0)

RectStartStack ==
    <<[phase |-> "entry", depth |-> 0, display_node_id |-> 0,
       attempts |-> <<>>, display_indices |-> {},
       rightmost_idx |-> -1, idx |-> -1, subtree_nodes |-> 1,
       found_solution |-> FALSE, name |-> None, shifted |-> <<>>,
       entry_board |-> <<>>, entry_used |-> {}, entry_keys |-> {},
       entry_counter |-> 0]>>

InitRect ==
    /\ InitTrace({PieceKeys})
    /\ prog = "rect"
    /\ nodes = RectRootNodes
    /\ events = <<EnterEvent(0)>>
    /\ next_node_id = 1 /\ node_counter = 0
    /\ step_elapsed_ms = <<"ms">>
    /\ stack = RectStartStack

NextRect ==
    \/ RectCall \/ SolveFirstCall \/ SolveFirstLoop \/ SolveFirstResume
    \/ RectDisplay \/ RectLoop \/ RectResume

SpecRect == InitRect /\ [][NextRect]_vars

(***************************************************************************)
(* Any of the four searches.                                               *)
(***************************************************************************)
Init == InitSearch \/ InitSolve \/ InitTrip \/ InitRect

Next == NextSearch \/ NextSolve \/ NextTrip \/ NextRect

Spec == Init /\ [][Next]_vars

\* either build_trace
InitTraces == InitTrip \/ InitRect

NextTraces == NextTrip \/ NextRect

SpecTraces == InitTraces /\ [][NextTraces]_vars

(***************************************************************************)
(* A caller that searches the same problem twice: with a budget, then      *)
(* with the full budget.  It keeps what the first call handed back.        *)
(***************************************************************************)
\* what the caller holds when the call is over: search() returns a bool and
\* leaves events, board and used in the SearchState; build_trace returns a
\* TraceResult (the two elapsed-time fields are clock readings)
Delivered ==
    CASE prog = "search" ->
           [value |-> ret, events |-> events, board |-> board, used |-> used]
      [] prog = "trip" -> [nodes |-> nodes, events |-> events]
      [] prog = "rect" ->
           [nodes |-> nodes, events |-> events, total_steps |-> node_counter,
            step_elapsed_ms |-> step_elapsed_ms]

\* the call was cut off by its budget
CutOff ==
    CASE prog = "search" ->
           Len(events) >= max_steps /\ grid_first_empty(board, rows, cols) # None
      [] prog \in {"trip", "rect"} -> ret.aborted

\* the call tried every candidate and found no cover
NoSolution ==
    CASE prog = "search" -> ret = FALSE
      [] prog \in {"trip", "rect"} -> ~ret.solved /\ ~ret.aborted

CallAgain ==
    /\ pc = "done" /\ delivered = <<>>
    /\ prog \in {"search", "trip", "rect"}
    /\ delivered' = <<[result |-> Delivered, cut_off |-> CutOff,
                       no_solution |-> NoSolution]>>
    /\ used' = {} /\ filled_keys' = {} /\ ret' = NoRet /\ pc' = "run"
    /\ node_counter' = 0 /\ tried' = <<>>
    /\ CASE prog = "search" ->
              /\ max_steps' = FullSteps /\ max_nodes' = max_nodes
              /\ board' = EmptyGrid(rows, cols)
              /\ events' = <<>> /\ nodes' = <<>> /\ next_node_id' = 0
              /\ step_elapsed_ms' = <<>>
              /\ stack' = SearchStartStack
         [] prog = "trip" ->
              /\ max_nodes' = FullNodes /\ max_steps' = max_steps
              /\ board' = <<>>
              /\ events' = <<EnterEvent(0)>> /\ nodes' = TripRootNodes
              /\ next_node_id' = 1 /\ step_elapsed_ms' = <<>>
              /\ stack' = TripStartStack
         [] prog = "rect" ->
              /\ max_nodes' = FullNodes /\ max_steps' = max_steps
              /\ board' = <<>>
              /\ events' = <<EnterEvent(0)>> /\ nodes' = RectRootNodes
              /\ next_node_id' = 1 /\ step_elapsed_ms' = <<"ms">>
              /\ stack' = RectStartStack
    /\ UNCHANGED <<prog, rows, cols, seed, mask_cells, selected_pieces,
                   enable_pruning, max_display_depth, max_display_children,
                   sorted_mask, allowed_keys, rng, callerVars>>

InitTwice == InitSearch \/ InitTrip \/ InitRect

NextTwice == NextSearch \/ NextTrip \/ NextRect \/ CallAgain

SpecTwice == InitTwice /\ [][NextTwice]_vars

(***************************************************************************)
(* A caller that traces the same problem twice (triplication): with the    *)
(* pruning on, then with the pruning off and the same caps and budget.  It *)
(* keeps what the root dfs call of the first trace returned.               *)
(***************************************************************************)
TraceUnpruned ==
    /\ prog = "trip" /\ caller = "none"
    /\ pc = "done" /\ delivered = <<>> /\ enable_pruning
    /\ delivered' = <<ret>>
    /\ enable_pruning' = FALSE
    /\ used' = {} /\ filled_keys' = {} /\ board' = <<>>
    /\ node_counter' = 0 /\ tried' = <<>>
    /\ events' = <<EnterEvent(0)>> /\ nodes' = TripRootNodes
    /\ next_node_id' = 1
    /\ stack' = TripStartStack /\ ret' = NoRet /\ pc' = "run"
    /\ UNCHANGED <<prog, rows, cols, max_steps, seed, mask_cells,
                   selected_pieces, max_display_depth, max_display_children,
                   max_nodes, sorted_mask, allowed_keys, callerVars,
                   step_elapsed_ms, rng>>

NextTripTwice == NextTrip \/ TraceUnpruned

SpecTripTwice == InitTrip /\ [][NextTripTwice]_vars

(***************************************************************************)
(* A caller that traces the same problem twice with the same pruning       *)
(* setting and budget: with the default display caps, then with other      *)
(* caps.  It keeps the placements the first trace searched, what its root  *)
(* dfs call returned and its total_steps.                                  *)
(***************************************************************************)
\* the second trace's caps: every depth cap with the default fan-out cap,
\* every fan-out cap up to MaxRecapChildren with the default depth cap
RecapCaps ==
    ({<<d, DefaultMaxDisplayChildren>> : d \in 0..MaxDisplayDepth}
        \cup {<<DefaultMaxDisplayDepth, c>> : c \in 0..MaxRecapChildren})
    \ {<<DefaultMaxDisplayDepth, DefaultMaxDisplayChildren>>}

TraceRecapped ==
    /\ prog \in {"trip", "rect"} /\ caller = "none"
    /\ pc = "done" /\ delivered = <<>>
    /\ max_display_depth = DefaultMaxDisplayDepth
    /\ max_display_children = DefaultMaxDisplayChildren
    /\ \E cap \in RecapCaps :
          /\ max_display_depth' = cap[1]
          /\ max_display_children' = cap[2]
    /\ delivered' = <<[tried |-> tried, solved |-> ret.solved,
                       aborted |-> ret.aborted, total_steps |-> node_counter]>>
    /\ used' = {} /\ filled_keys' = {} /\ board' = <<>>
    /\ node_counter' = 0 /\ tried' = <<>>
    /\ events' = <<EnterEvent(0)>> /\ next_node_id' = 1
    /\ IF prog = "trip"
       THEN /\ nodes' = TripRootNodes /\ stack' = TripStartStack
            /\ step_elapsed_ms' = <<>>
       ELSE /\ nodes' = RectRootNodes /\ stack' = RectStartStack
            /\ step_elapsed_ms' = <<"ms">>
    /\ ret' = NoRet /\ pc' = "run"
    /\ UNCHANGED <<prog, rows, cols, max_steps, seed, mask_cells,
                   selected_pieces, enable_pruning, max_nodes, sorted_mask,
                   allowed_keys, callerVars, rng>>

InitRecap ==
    /\ InitTraces
    /\ max_display_depth = DefaultMaxDisplayDepth
    /\ max_display_children = DefaultMaxDisplayChildren

NextRecap == NextTraces \/ TraceRecapped

SpecRecap == InitRecap /\ [][NextRecap]_vars

(***************************************************************************)
(* A caller that builds a second DFSSolver with the same rows, cols and    *)
(* seed and calls solve() again.  It keeps what the first call returned.   *)
(***************************************************************************)
\* the frame of the outermost solve() call of a new DFSSolver
SolveStartStack ==
    <<[phase |-> "entry", names |-> <<>>, ni |-> 0, orients |-> <<>>,
       oi |-> 0, anchors |-> <<>>, ai |-> 0, name |-> None,
       shifted |-> <<>>, entry_board |-> EmptyGrid(rows, cols),
       entry_used |-> {}]>>

SolveAgain ==
    /\ prog = "solve" /\ caller = "none"
    /\ pc = "done" /\ delivered = <<>>
    /\ delivered' = <<[result |-> ret]>>
    /\ board' = EmptyGrid(rows, cols) /\ used' = {}
    /\ rng' = random_Random(seed, rng)
    /\ stack' = SolveStartStack /\ ret' = NoRet /\ pc' = "run"
    /\ UNCHANGED <<prog, rows, cols, max_steps, seed, mask_cells,
                   selected_pieces, enable_pruning, max_display_depth,
                   max_display_children, max_nodes, sorted_mask,
                   allowed_keys, callerVars, traceVars, events>>

NextSolveTwice == NextSolve \/ SolveAgain

SpecSolveTwice == InitSolve /\ [][NextSolveTwice]_vars

(***************************************************************************)
(* PentominoFiveRectangles.find_unique_solutions, called by any caller with *)
(* a count and a number of attempts or by construct() with solve_count and *)
(* 300 attempts, and the check construct() makes on what its own call      *)
(* returns.  Every solver is DFSSolver(rows=6, cols=10,   *)
(* seed=attempt + 1), an object local to the loop.  Its solve() run takes  *)
(* between 463,264 and 12,108,020 generator outputs for the seeds 1 to 5,  *)
(* so the run is not stepped through here: SixByTenSolutions holds, seed   *)
(* by seed, the list the code returns (twelve placements in the order      *)
(* placed, the cells of each in the order of the shifted tuple).           *)
(***************************************************************************)
SixByTenSolutions ==
  <<
    <<
      <<"V", <<<<0, 0>>, <<0, 1>>, <<0, 2>>, <<1, 2>>, <<2, 2>>>>>>,
      <<"L", <<<<0, 3>>, <<0, 4>>, <<0, 5>>, <<0, 6>>, <<1, 3>>>>>>,
      <<"U", <<<<0, 7>>, <<0, 8>>, <<0, 9>>, <<1, 7>>, <<1, 9>>>>>>,
      <<"I", <<<<1, 0>>, <<2, 0>>, <<3, 0>>, <<4, 0>>, <<5, 0>>>>>>,
      <<"Y", <<<<1, 1>>, <<2, 1>>, <<3, 1>>, <<3, 2>>, <<4, 1>>>>>>,
      <<"F", <<<<1, 4>>, <<2, 3>>, <<2, 4>>, <<2, 5>>, <<3, 5>>>>>>,
      <<"W", <<<<1, 5>>, <<1, 6>>, <<2, 6>>, <<2, 7>>, <<3, 7>>>>>>,
      <<"N", <<<<1, 8>>, <<2, 8>>, <<2, 9>>, <<3, 9>>, <<4, 9>>>>>>,
      <<"Z", <<<<3, 3>>, <<3, 4>>, <<4, 4>>, <<5, 4>>, <<5, 5>>>>>>,
      <<"X", <<<<3, 6>>, <<4, 5>>, <<4, 6>>, <<4, 7>>, <<5, 6>>>>>>,
      <<"T", <<<<3, 8>>, <<4, 8>>, <<5, 7>>, <<5, 8>>, <<5, 9>>>>>>,
      <<"P", <<<<4, 2>>, <<4, 3>>, <<5, 1>>, <<5, 2>>, <<5, 3>>>>>>
    >>,
    <<
      <<"Z", <<<<0, 0>>, <<0, 1>>, <<1, 1>>, <<2, 1>>, <<2, 2>>>>>>,
      <<"V", <<<<0, 2>>, <<0, 3>>, <<0, 4>>, <<1, 4>>, <<2, 4>>>>>>,
      <<"L", <<<<0, 5>>, <<0, 6>>, <<0, 7>>, <<0, 8>>, <<1, 5>>>>>>,
      <<"T", <<<<0, 9>>, <<1, 7>>, <<1, 8>>, <<1, 9>>, <<2, 9>>>>>>,
      <<"I", <<<<1, 0>>, <<2, 0>>, <<3, 0>>, <<4, 0>>, <<5, 0>>>>>>,
      <<"U", <<<<1, 2>>, <<1, 3>>, <<2, 3>>, <<3, 2>>, <<3, 3>>>>>>,
      <<"X", <<<<1, 6>>, <<2, 5>>, <<2, 6>>, <<2, 7>>, <<3, 6>>>>>>,
      <<"N", <<<<2, 8>>, <<3, 8>>, <<3, 9>>, <<4, 9>>, <<5, 9>>>>>>,
      <<"P", <<<<3, 1>>, <<4, 1>>, <<4, 2>>, <<5, 1>>, <<5, 2>>>>>>,
      <<"W", <<<<3, 4>>, <<3, 5>>, <<4, 3>>, <<4, 4>>, <<5, 3>>>>>>,
      <<"F", <<<<3, 7>>, <<4, 6>>, <<4, 7>>, <<4, 8>>, <<5, 8>>>>>>,
      <<"Y", <<<<4, 5>>, <<5, 4>>, <<5, 5>>, <<5, 6>>, <<5, 7>>>>>>
    >>,
    <<
      <<"I", <<<<0, 0>>, <<0, 1>>, <<0, 2>>, <<0, 3>>, <<0, 4>>>>>>,
      <<"F", <<<<0, 5>>, <<1, 3>>, <<1, 4>>, <<1, 5>>, <<2, 4>>>>>>,
      <<"V", <<<<0, 6>>, <<0, 7>>, <<0, 8>>, <<1, 6>>, <<2, 6>>>>>>,
      <<"T", <<<<0, 9>>, <<1, 7>>, <<1, 8>>, <<1, 9>>, <<2, 9>>>>>>,
      <<"U", <<<<1, 0>>, <<1, 1>>, <<2, 0>>, <<3, 0>>, <<3, 1>>>>>>,
      <<"X", <<<<1, 2>>, <<2, 1>>, <<2, 2>>, <<2, 3>>, <<3, 2>>>>>>,
      <<"Z", <<<<2, 5>>, <<3, 5>>, <<3, 6>>, <<3, 7>>, <<4, 7>>>>>>,
      <<"W", <<<<2, 7>>, <<2, 8>>, <<3, 8>>, <<3, 9>>, <<4, 9>>>>>>,
      <<"N", <<<<3, 3>>, <<3, 4>>, <<4, 1>>, <<4, 2>>, <<4, 3>>>>>>,
      <<"L", <<<<4, 0>>, <<5, 0>>, <<5, 1>>, <<5, 2>>, <<5, 3>>>>>>,
      <<"P", <<<<4, 4>>, <<4, 5>>, <<4, 6>>, <<5, 4>>, <<5, 5>>>>>>,
      <<"Y", <<<<4, 8>>, <<5, 6>>, <<5, 7>>, <<5, 8>>, <<5, 9>>>>>>
    >>,
    <<
      <<"Z", <<<<0, 0>>, <<1, 0>>, <<1, 1>>, <<1, 2>>, <<2, 2>>>>>>,
      <<"L", <<<<0, 1>>, <<0, 2>>, <<0, 3>>, <<0, 4>>, <<1, 4>>>>>>,
      <<"T", <<<<0, 5>>, <<1, 5>>, <<2, 4>>, <<2, 5>>, <<2, 6>>>>>>,
      <<"F", <<<<0, 6>>, <<1, 6>>, <<1, 7>>, <<1, 8>>, <<2, 7>>>>>>,
      <<"V", <<<<0, 7>>, <<0, 8>>, <<0, 9>>, <<1, 9>>, <<2, 9>>>>>>,
      <<"N", <<<<1, 3>>, <<2, 3>>, <<3, 3>>, <<3, 4>>, <<4, 4>>>>>>,
      <<"Y", <<<<2, 0>>, <<3, 0>>, <<4, 0>>, <<4, 1>>, <<5, 0>>>>>>,
      <<"W", <<<<2, 1>>, <<3, 1>>, <<3, 2>>, <<4, 2>>, <<4, 3>>>>>>,
      <<"X", <<<<2, 8>>, <<3, 7>>, <<3, 8>>, <<3, 9>>, <<4, 8>>>>>>,
      <<"P", <<<<3, 5>>, <<3, 6>>, <<4, 5>>, <<4, 6>>, <<5, 6>>>>>>,
      <<"U", <<<<4, 7>>, <<4, 9>>, <<5, 7>>, <<5, 8>>, <<5, 9>>>>>>,
      <<"I", <<<<5, 1>>, <<5, 2>>, <<5, 3>>, <<5, 4>>, <<5, 5>>>>>>
    >>,
    <<
      <<"Y", <<<<0, 0>>, <<1, 0>>, <<2, 0>>, <<2, 1>>, <<3, 0>>>>>>,
      <<"N", <<<<0, 1>>, <<0, 2>>, <<0, 3>>, <<1, 3>>, <<1, 4>>>>>>,
      <<"T", <<<<0, 4>>, <<0, 5>>, <<0, 6>>, <<1, 5>>, <<2, 5>>>>>>,
      <<"V", <<<<0, 7>>, <<0, 8>>, <<0, 9>>, <<1, 9>>, <<2, 9>>>>>>,
      <<"U", <<<<1, 1>>, <<1, 2>>, <<2, 2>>, <<3, 1>>, <<3, 2>>>>>>,
      <<"L", <<<<1, 6>>, <<1, 7>>, <<2, 6>>, <<3, 6>>, <<4, 6>>>>>>,
      <<"F", <<<<1, 8>>, <<2, 7>>, <<2, 8>>, <<3, 8>>, <<3, 9>>>>>>,
      <<"W", <<<<2, 3>>, <<2, 4>>, <<3, 4>>, <<3, 5>>, <<4, 5>>>>>>,
      <<"X", <<<<3, 3>>, <<4, 2>>, <<4, 3>>, <<4, 4>>, <<5, 3>>>>>>,
      <<"Z", <<<<3, 7>>, <<4, 7>>, <<4, 8>>, <<4, 9>>, <<5, 9>>>>>>,
      <<"P", <<<<4, 0>>, <<4, 1>>, <<5, 0>>, <<5, 1>>, <<5, 2>>>>>>,
      <<"I", <<<<5, 4>>, <<5, 5>>, <<5, 6>>, <<5, 7>>, <<5, 8>>>>>>
    >>,
    <<
      <<"U", <<<<0, 0>>, <<0, 1>>, <<1, 0>>, <<2, 0>>, <<2, 1>>>>>>,
      <<"F", <<<<0, 2>>, <<0, 3>>, <<1, 3>>, <<1, 4>>, <<2, 3>>>>>>,
      <<"Y", <<<<0, 4>>, <<0, 5>>, <<0, 6>>, <<0, 7>>, <<1, 6>>>>>>,
      <<"W", <<<<0, 8>>, <<0, 9>>, <<1, 7>>, <<1, 8>>, <<2, 7>>>>>>,
      <<"Z", <<<<1, 1>>, <<1, 2>>, <<2, 2>>, <<3, 2>>, <<3, 3>>>>>>,
      <<"X", <<<<1, 5>>, <<2, 4>>, <<2, 5>>, <<2, 6>>, <<3, 5>>>>>>,
      <<"I", <<<<1, 9>>, <<2, 9>>, <<3, 9>>, <<4, 9>>, <<5, 9>>>>>>,
      <<"T", <<<<2, 8>>, <<3, 6>>, <<3, 7>>, <<3, 8>>, <<4, 8>>>>>>,
      <<"P", <<<<3, 0>>, <<3, 1>>, <<4, 0>>, <<4, 1>>, <<4, 2>>>>>>,
      <<"V", <<<<3, 4>>, <<4, 4>>, <<5, 4>>, <<5, 5>>, <<5, 6>>>>>>,
      <<"L", <<<<4, 3>>, <<5, 0>>, <<5, 1>>, <<5, 2>>, <<5, 3>>>>>>,
      <<"N", <<<<4, 5>>, <<4, 6>>, <<4, 7>>, <<5, 7>>, <<5, 8>>>>>>
    >>,
    <<
      <<"V", <<<<0, 0>>, <<0, 1>>, <<0, 2>>, <<1, 2>>, <<2, 2>>>>>>,
      <<"P", <<<<0, 3>>, <<0, 4>>, <<0, 5>>, <<1, 4>>, <<1, 5>>>>>>,
      <<"U", <<<<0, 6>>, <<0, 7>>, <<0, 8>>, <<1, 6>>, <<1, 8>>>>>>,
      <<"I", <<<<0, 9>>, <<1, 9>>, <<2, 9>>, <<3, 9>>, <<4, 9>>>>>>,
      <<"Z", <<<<1, 0>>, <<1, 1>>, <<2, 1>>, <<3, 1>>, <<3, 2>>>>>>,
      <<"N", <<<<1, 3>>, <<2, 3>>, <<2, 4>>, <<3, 4>>, <<4, 4>>>>>>,
      <<"X", <<<<1, 7>>, <<2, 6>>, <<2, 7>>, <<2, 8>>, <<3, 7>>>>>>,
      <<"L", <<<<2, 0>>, <<3, 0>>, <<4, 0>>, <<5, 0>>, <<5, 1>>>>>>,
      <<"W", <<<<2, 5>>, <<3, 5>>, <<3, 6>>, <<4, 6>>, <<4, 7>>>>>>,
      <<"F", <<<<3, 3>>, <<4, 1>>, <<4, 2>>, <<4, 3>>, <<5, 2>>>>>>,
      <<"T", <<<<3, 8>>, <<4, 8>>, <<5, 7>>, <<5, 8>>, <<5, 9>>>>>>,
      <<"Y", <<<<4, 5>>, <<5, 3>>, <<5, 4>>, <<5, 5>>, <<5, 6>>>>>>
    >>
  >>

\* DFSSolver(rows=6, cols=10, seed=sd).solve() on the empty board
solve_six_by_ten(sd) == SixByTenSolutions[sd]

\* the position of a piece name in alphabetical order
NameRank(n) == CHOOSE i \in DOMAIN SortedNames : SortedNames[i] = n

\* tuple comparison of two cell lists, as Python compares tuples
RECURSIVE CellsLess(_, _)
CellsLess(a, b) ==
    IF a = <<>> THEN b # <<>>
    ELSE IF b = <<>> THEN FALSE
    ELSE IF Head(a) = Head(b) THEN CellsLess(Tail(a), Tail(b))
    ELSE CellLess(Head(a), Head(b))

\* tuple comparison of two (name, cells) pairs
PlacementLess(a, b) ==
    IF a[1] = b[1] THEN CellsLess(a[2], b[2])
    ELSE NameRank(a[1]) < NameRank(b[1])

RECURSIVE InsertPlacement(_, _)
InsertPlacement(x, sorted) ==
    IF sorted = <<>> THEN <<x>>
    ELSE IF PlacementLess(x, Head(sorted)) THEN <<x>> \o sorted
    ELSE <<Head(sorted)>> \o InsertPlacement(x, Tail(sorted))

RECURSIVE SortedPlacements(_)
SortedPlacements(x) ==
    IF x = <<>> THEN <<>>
    ELSE InsertPlacement(Head(x), SortedPlacements(Tail(x)))

\* lines 301-305: cells sorted within each placement, then the pairs sorted
solution_signature(solution) ==
    SortedPlacements([i \in DOMAIN solution |->
                         <<solution[i][1], SortedCells(solution[i][2])>>])

\* list(unique.values())
UniqueValues(u) == [i \in DOMAIN u |-> u[i].solution]

UniqueKeys(u) == {u[i].signature : i \in DOMAIN u}

\* lines 288-291 and 299: the next attempt builds a solver seeded attempt + 1
\* on the 6x10 board and calls solve(); when the attempts are used up the
\* values are returned
FindAttempt ==
    /\ caller \in {"find", "construct"} /\ pc = "find"
    /\ IF attempt < max_attempts
       THEN /\ (attempt + 1) \in DOMAIN SixByTenSolutions
            /\ seed' = attempt + 1
            /\ ret' = solve_six_by_ten(attempt + 1) /\ pc' = "done"
       ELSE /\ ret' = UniqueValues(unique) /\ pc' = "found"
            /\ UNCHANGED seed
    /\ UNCHANGED <<prog, rows, cols, max_steps, mask_cells, selected_pieces,
                   enable_pruning, max_display_depth, max_display_children,
                   max_nodes, sorted_mask, allowed_keys, delivered,
                   caller, count, max_attempts, attempt, unique,
                   traceVars, events, rng, board, used, stack>>

\* lines 292-298: solve() returned; a solution with a new signature is kept,
\* and the loop is left at the count-th one.  delivered keeps what every
\* solver returned, with its seed.
FindCollect ==
    /\ caller \in {"find", "construct"} /\ pc = "done"
    /\ delivered' = Append(delivered, [seed |-> seed, result |-> ret])
    /\ IF ret = None
       THEN /\ attempt' = attempt + 1 /\ pc' = "find"
            /\ UNCHANGED <<unique, ret>>
       ELSE \E signature \in {solution_signature(ret)} :
            IF signature \notin UniqueKeys(unique)
            THEN /\ unique' = Append(unique, [signature |-> signature,
                                              solution |-> ret])
                 /\ IF Len(unique') >= count
                    THEN /\ ret' = UniqueValues(unique') /\ pc' = "found"
                         /\ UNCHANGED attempt
                    ELSE /\ attempt' = attempt + 1 /\ pc' = "find"
                         /\ UNCHANGED ret
            ELSE /\ attempt' = attempt + 1 /\ pc' = "find"
                 /\ UNCHANGED <<unique, ret>>
    /\ UNCHANGED <<prog, rows, cols, max_steps, seed, mask_cells,
                   selected_pieces, enable_pruning, max_display_depth,
                   max_display_children, max_nodes, sorted_mask,
                   allowed_keys, caller, count, max_attempts,
                   traceVars, board, used, events, rng, stack>>

\* line 194 of construct()
solve_count == 5

\* line 196 of construct(): max_attempts=300
ConstructMaxAttempts == 300

\* lines 197-200 of construct(): what follows its call, a RuntimeError that
\* tells how many solutions were found, or the solutions
construct_check(solutions) ==
    IF Len(solutions) < solve_count
    THEN [error |-> "RuntimeError", found |-> Len(solutions),
          expected |-> solve_count]
    ELSE solutions

\* lines 196-200: the call construct() made has returned
ConstructCheck ==
    /\ caller = "construct" /\ pc = "found"
    /\ ret' = construct_check(ret)
    /\ pc' = IF Len(ret) < solve_count THEN "raised" ELSE "animate"
    /\ UNCHANGED <<inputs, traceVars, board, used, events, rng, stack>>

\* the entry of find_unique_solutions: a call with some count and
\* max_attempts, or the call of line 196
InitFind ==
    /\ prog = "solve"
    /\ rows = 6 /\ cols = 10
    /\ \/ /\ caller = "find"
          /\ count \in 0..MaxCount /\ max_attempts \in 0..MaxAttempts
       \/ /\ caller = "construct"
          /\ count = solve_count /\ max_attempts = ConstructMaxAttempts
    /\ attempt = 0 /\ unique = <<>>
    /\ seed = 0 /\ rng = 0 /\ max_steps = 0
    /\ mask_cells = <<>> /\ selected_pieces = <<>>
    /\ sorted_mask = <<>> /\ allowed_keys = {}
    /\ enable_pruning = FALSE /\ max_display_depth = 0
    /\ max_display_children = 0 /\ max_nodes = 0
    /\ board = <<>> /\ used = {} /\ events = <<>>
    /\ filled_keys = {} /\ nodes = <<>> /\ next_node_id = 0
    /\ node_counter = 0 /\ step_elapsed_ms = <<>> /\ tried = <<>>
    /\ delivered = <<>> /\ stack = <<>> /\ ret = NoRet /\ pc = "find"

NextFind == FindAttempt \/ FindCollect \/ ConstructCheck

SpecFind == InitFind /\ [][NextFind]_vars

(***************************************************************************)
(* unique_orientations called on its own: the argument is the base shape   *)
(* of a piece as the table lists it, or any orientation of a piece moved   *)
(* by up to MaxShift rows and columns.                                     *)
(***************************************************************************)
OrientArgs ==
    {[i \in 1..5 |-> <<ORIENTATIONS[nk[1]][nk[2]][i][1] + d[1],
                       ORIENTATIONS[nk[1]][nk[2]][i][2] + d[2]>>] :
        nk \in {x \in PieceNames \X (1..8) : x[2] <= Len(ORIENTATIONS[x[1]])},
        d \in (0..MaxShift) \X (0..MaxShift)}
    \cup {PENTOMINOES[n] : n \in PieceNames}

\* lines 148-157 (pentomino_6x10), 69-86 (rect): one call
OrientCall ==
    /\ prog = "orient" /\ pc = "run"
    /\ ret' = unique_orientations(Top.cells)
    /\ stack' = Pop
    /\ pc' = "done"
    /\ UNCHANGED <<inputs, traceVars, board, used, events, rng>>

InitOrient ==
    /\ prog = "orient"
    /\ \E cells \in OrientArgs : stack = <<[cells |-> cells]>>
    /\ rows = 0 /\ cols = 0 /\ mask_cells = <<>>
    /\ sorted_mask = <<>> /\ allowed_keys = {} /\ filled_keys = {}
    /\ selected_pieces = <<>> /\ enable_pruning = FALSE
    /\ max_display_depth = 0 /\ max_display_children = 0 /\ max_nodes = 0
    /\ max_steps = 0 /\ seed = 0 /\ rng = 0
    /\ used = {} /\ board = <<>> /\ events = <<>> /\ nodes = <<>>
    /\ next_node_id = 0 /\ node_counter = 0 /\ step_elapsed_ms = <<>> /\ tried = <<>>
    /\ ret = NoRet /\ pc = "run" /\ delivered = <<>>
    /\ NoCaller

NextOrient == OrientCall

SpecOrient == InitOrient /\ [][NextOrient]_vars

(***************************************************************************)
(* has_only_five_multiple_void_regions called on its own: the boards are   *)
(* the ones apply() can build, any pieces laid anywhere on the mask        *)
(* without overlap, no piece twice.                                        *)
(***************************************************************************)
\* CanTile, decided at once when the number of cells is no multiple of five
Tileable(E, names, distinct) ==
    Cardinality(E) % 5 = 0 /\ CanTile(E, names, distinct)

NamedShapes == UNION {{<<n, S>> : S \in Shapes[n]} : n \in PieceNames}

\* the filled cell sets made of placements inside E whose last cells come in
\* decreasing order below top
RECURSIVE Packed(_, _, _)
Packed(E, names, top) ==
    {{}} \cup UNION {
        LET P == MovedTo(nS[2], LastCell(nS[2]), t)
        IN IF P \subseteq E
           THEN {P \cup B : B \in Packed(E \ P, names \ {nS[1]}, t)}
           ELSE {}
        : nS \in {x \in NamedShapes : x[1] \in names},
          t \in {c \in E : CellLess(c, top)}}

OracleBoards(r, c, mask) ==
    {{key(rc) : rc \in B} : B \in Packed(CellSet(mask), PieceNames, <<r, 0>>)}

\* lines 248-283 (rect), 149-184 (triplication): one call
OracleCall ==
    /\ prog = "oracle" /\ pc = "run"
    /\ ret' = has_only_five_multiple_void_regions(rows, cols, allowed_keys,
                                                  sorted_mask, filled_keys)
    /\ pc' = "done"
    /\ UNCHANGED <<inputs, traceVars, board, used, events, rng, stack>>

InitOracle ==
    /\ prog = "oracle"
    /\ rows \in 1..MaxRows /\ cols \in 1..MaxCols
    /\ rows * cols <= MaxCells
    /\ mask_cells \in Masks(rows, cols)
    /\ sorted_mask = SortedCells(mask_cells)
    /\ allowed_keys = KeySet(mask_cells)
    /\ filled_keys \in OracleBoards(rows, cols, mask_cells)
    /\ selected_pieces = PieceKeys /\ enable_pruning = TRUE
    /\ max_display_depth = 0 /\ max_display_children = 0 /\ max_nodes = 0
    /\ max_steps = 0 /\ seed = 0 /\ rng = 0
    /\ used = {} /\ board = <<>> /\ events = <<>> /\ nodes = <<>>
    /\ next_node_id = 0 /\ node_counter = 0 /\ step_elapsed_ms = <<>> /\ tried = <<>>
    /\ stack = <<>> /\ ret = NoRet /\ pc = "run" /\ delivered = <<>>
    /\ NoCaller

NextOracle == OracleCall

\* the cells of a set as a list in (row, column) order
RECURSIVE CellList(_)
CellList(S) ==
    IF S = {} THEN <<>>
    ELSE LET m == CHOOSE x \in S : \A y \in S : y = x \/ CellLess(x, y)
         IN <<m>> \o CellList(S \ {m})

\* the oracle on any mask inside a board of at most MaxOracleCells cells,
\* with any of the mask's cells filled
InitOracleAny ==
    /\ prog = "oracle"
    /\ rows \in 1..MaxRows /\ cols \in 1..MaxCols
    /\ rows * cols <= MaxOracleCells
    /\ \E M \in SUBSET GridCells(rows, cols) :
       \E F \in SUBSET M :
          /\ mask_cells = CellList(M)
          /\ filled_keys = {key(rc) : rc \in F}
    /\ sorted_mask = SortedCells(mask_cells)
    /\ allowed_keys = KeySet(mask_cells)
    /\ selected_pieces = PieceKeys /\ enable_pruning = TRUE
    /\ max_display_depth = 0 /\ max_display_children = 0 /\ max_nodes = 0
    /\ max_steps = 0 /\ seed = 0 /\ rng = 0
    /\ used = {} /\ board = <<>> /\ events = <<>> /\ nodes = <<>>
    /\ next_node_id = 0 /\ node_counter = 0 /\ step_elapsed_ms = <<>> /\ tried = <<>>
    /\ stack = <<>> /\ ret = NoRet /\ pc = "run" /\ delivered = <<>>
    /\ NoCaller

SpecOracleAny == InitOracleAny /\ [][NextOracle]_vars

SpecOracle == InitOracle /\ [][NextOracle]_vars

(***************************************************************************)
(* animate_single_tree of rect_6x10_dfs_tree.py: build_trace with the      *)
(* pruning, build_trace without it, then                                   *)
(* add_pruned_descendants_from_unpruned(pruned_trace, unpruned_trace, ...). *)
(* delivered[1] is pruned_trace and delivered[2] is unpruned_trace; nodes, *)
(* events and next_node_id hold the function's nodes, events and next_id;  *)
(* max_display_depth and max_display_children hold its two arguments.      *)
(***************************************************************************)
\* the string "r,c:name|r,c:name|..." over the cells in (row, column)
\* order, kept as the list of its parts
board_signature(b) ==
    LET cells == CellList(DOMAIN b)
    IN [i \in DOMAIN cells |->
          <<cells[i][1], ",", cells[i][2], ":", b[cells[i]]>>]

\* lines 154-170: a new NodeData for every node of pruned_trace
copy_nodes(ns) ==
    [nid \in DOMAIN ns |->
        [node_id |-> ns[nid].node_id, parent_id |-> ns[nid].parent_id,
         depth |-> ns[nid].depth, board |-> ns[nid].board,
         pruned |-> ns[nid].pruned, counterfactual |-> ns[nid].counterfactual,
         rightmost_chain |-> ns[nid].rightmost_chain,
         children |-> ns[nid].children, elapsed_ms |-> ns[nid].elapsed_ms,
         explored_subnodes |-> ns[nid].explored_subnodes,
         step_at_enter |-> ns[nid].step_at_enter]]

\* the copy handing on every children list of pruned_trace as it is
shared_children_all(ns) == DOMAIN ns

\* the ids of the copied nodes whose children list is the very list object
\* of the pruned_trace node: none, list(node.children) makes a new list
shared_children(ns) == {}

\* lines 174-180: signature -> id of the first node entered with it
unpruned_by_sig(trace) ==
    LET enters == {i \in DOMAIN trace.events : trace.events[i].kind = "enter"}
        sigs == [i \in enters |->
                    board_signature(trace.nodes[trace.events[i].node_id].board)]
    IN [sg \in {sigs[i] : i \in enters} |->
           trace.events[Min({i \in enters : sigs[i] = sg})].node_id]

\* the copy keeping the parent un_child has in the unpruned trace
graft_node_orphan(new_id, parent_id, parent_depth, un_child) ==
    [node_id |-> new_id, parent_id |-> un_child.parent_id,
     depth |-> parent_depth + 1,
     board |-> un_child.board, pruned |-> FALSE, counterfactual |-> TRUE,
     rightmost_chain |-> un_child.rightmost_chain,
     step_at_enter |-> un_child.step_at_enter,
     children |-> <<>>, elapsed_ms |-> None, explored_subnodes |-> 0]

\* lines 195-205: the node copied from un_child under parent
graft_node(new_id, parent_id, parent_depth, un_child) ==
    [node_id |-> new_id, parent_id |-> parent_id, depth |-> parent_depth + 1,
     board |-> un_child.board, pruned |-> FALSE, counterfactual |-> TRUE,
     rightmost_chain |-> un_child.rightmost_chain,
     step_at_enter |-> un_child.step_at_enter,
     children |-> <<>>, elapsed_ms |-> None, explored_subnodes |-> 0]

\* un_node.children[:max_display_children] for a cap that is not negative
SliceTo(children, cap) ==
    SubSeq(children, 1, IF cap < Len(children) THEN cap ELSE Len(children))

CloneFrame(un_id, parent_id) ==
    [phase |-> "clone_entry", un_id |-> un_id, parent_id |-> parent_id,
     k |-> 0, new_id |-> NoId]

\* what the three functions of this section leave alone
graftFixed == <<prog, rows, cols, max_steps, seed, mask_cells, selected_pieces,
                enable_pruning, max_nodes, sorted_mask, allowed_keys,
                callerVars, board, used, filled_keys, node_counter,
                step_elapsed_ms, tried, rng>>

\* lines 753-759: the first trace is kept, the second one is built without
\* the pruning
TraceVanilla ==
    /\ prog = "rect" /\ caller \in {"graft", "plain"}
    /\ pc = "done" /\ delivered = <<>>
    /\ delivered' = <<Delivered>>
    /\ enable_pruning' = FALSE
    /\ used' = {} /\ filled_keys' = {} /\ board' = <<>>
    /\ node_counter' = 0 /\ tried' = <<>>
    /\ events' = <<EnterEvent(0)>> /\ nodes' = RectRootNodes
    /\ next_node_id' = 1 /\ step_elapsed_ms' = <<"ms">>
    /\ stack' = RectStartStack /\ ret' = NoRet /\ pc' = "run"
    /\ UNCHANGED <<prog, rows, cols, max_steps, seed, mask_cells,
                   selected_pieces, max_display_depth, max_display_children,
                   max_nodes, sorted_mask, allowed_keys, callerVars, rng>>

\* lines 761-766 and 154-180: the call and the set-up of the function
GraftCall ==
    /\ prog = "rect" /\ caller = "graft"
    /\ pc = "done" /\ Len(delivered) = 1
    /\ \E d \in 0..MaxDisplayDepth : max_display_depth' = d
    /\ \E c \in 0..MaxDisplayChildren : max_display_children' = c
    /\ delivered' = Append(delivered, Delivered)
    /\ nodes' = copy_nodes(delivered[1].nodes)
    /\ events' = <<>>
    /\ next_node_id' = IF DOMAIN delivered[1].nodes # {}
                       THEN (CHOOSE m \in DOMAIN delivered[1].nodes :
                                \A o \in DOMAIN delivered[1].nodes : o <= m) + 1
                       ELSE 0
    /\ stack' = <<[phase |-> "graft_loop", ei |-> 0,
                   unpruned_by_sig |-> unpruned_by_sig(Delivered),
                   shared |-> shared_children(delivered[1].nodes)]>>
    /\ ret' = NoRet /\ pc' = "graft"
    /\ UNCHANGED graftFixed

\* lines 211-229: the next event of pruned_trace is copied; the enter event
\* of a pruned node whose signature the unpruned trace knows starts
\* clone_subtree; after the last event the TraceResult is returned
GraftLoop ==
    /\ prog = "rect" /\ pc = "graft" /\ Top.phase = "graft_loop"
    /\ IF Top.ei >= Len(delivered[1].events)
       THEN /\ ret' = [nodes |-> nodes, events |-> events,
                       total_steps |-> delivered[1].total_steps,
                       step_elapsed_ms |-> delivered[1].step_elapsed_ms]
            /\ stack' = <<>> /\ pc' = "grafted"
            /\ UNCHANGED events
       ELSE LET ev == delivered[1].events[Top.ei + 1]
                sig == board_signature(nodes[ev.node_id].board)
                f == [Top EXCEPT !.ei = @ + 1]
            IN /\ events' = Append(events, ev)
               /\ IF /\ ev.kind = "enter" /\ nodes[ev.node_id].pruned
                     /\ sig \in DOMAIN Top.unpruned_by_sig
                  THEN stack' = Append(SetTop(f),
                                  CloneFrame(Top.unpruned_by_sig[sig], ev.node_id))
                  ELSE stack' = SetTop(f)
               /\ UNCHANGED <<ret, pc>>
    /\ UNCHANGED <<graftFixed, max_display_depth, max_display_children,
                   delivered, nodes, next_node_id>>

\* clone_subtree without the depth check
CloneCallAnyDepth ==
    /\ prog = "rect" /\ pc = "graft" /\ Top.phase = "clone_entry"
    /\ stack' = SetTop([Top EXCEPT !.phase = "clone_loop"])
    /\ UNCHANGED <<graftFixed, max_display_depth, max_display_children,
                   delivered, nodes, events, next_node_id, ret, pc>>

\* lines 182-188: clone_subtree(un_id, parent_id) returns at once under a
\* parent at the depth cap
CloneCall ==
    /\ prog = "rect" /\ pc = "graft" /\ Top.phase = "clone_entry"
    /\ IF nodes[Top.parent_id].depth >= max_display_depth
       THEN stack' = Pop
       ELSE stack' = SetTop([Top EXCEPT !.phase = "clone_loop"])
    /\ UNCHANGED <<graftFixed, max_display_depth, max_display_children,
                   delivered, nodes, events, next_node_id, ret, pc>>

\* lines 189-208: the next child of un_node is copied under parent and
\* cloned in its turn, or the loop ends
CloneLoop ==
    /\ prog = "rect" /\ pc = "graft" /\ Top.phase = "clone_loop"
    /\ LET kids == SliceTo(delivered[2].nodes[Top.un_id].children,
                           max_display_children)
       IN IF \/ Top.k >= Len(kids)
             \/ Len(nodes[Top.parent_id].children) >= max_display_children
          THEN /\ stack' = Pop
               /\ UNCHANGED <<delivered, nodes, events, next_node_id>>
          ELSE LET un_child_id == kids[Top.k + 1]
                   new_id == next_node_id
               IN /\ next_node_id' = next_node_id + 1
                  /\ nodes' = AddChild(
                         ExtendNodes(nodes, new_id,
                             graft_node(new_id, Top.parent_id,
                                        nodes[Top.parent_id].depth,
                                        delivered[2].nodes[un_child_id])),
                         Top.parent_id, new_id)
                  /\ delivered' =
                         IF Top.parent_id \in stack[1].shared
                         THEN [delivered EXCEPT
                                  ![1].nodes[Top.parent_id].children =
                                      Append(@, new_id)]
                         ELSE delivered
                  /\ events' = Append(events, EnterEvent(new_id))
                  /\ stack' = Append(
                         SetTop([Top EXCEPT !.phase = "clone_wait",
                                            !.k = @ + 1, !.new_id = new_id]),
                         CloneFrame(un_child_id, new_id))
    /\ UNCHANGED <<graftFixed, max_display_depth, max_display_children,
                   ret, pc>>

\* the return of the recursive call without the exit event
CloneResumeSilent ==
    /\ prog = "rect" /\ pc = "graft" /\ Top.phase = "clone_wait"
    /\ stack' = SetTop([Top EXCEPT !.phase = "clone_loop"])
    /\ UNCHANGED <<graftFixed, max_display_depth, max_display_children,
                   delivered, nodes, events, next_node_id, ret, pc>>

\* line 209: clone_subtree(un_child_id, new_id) returned
CloneResume ==
    /\ prog = "rect" /\ pc = "graft" /\ Top.phase = "clone_wait"
    /\ events' = Append(events, ExitEvent(Top.new_id))
    /\ stack' = SetTop([Top EXCEPT !.phase = "clone_loop"])
    /\ UNCHANGED <<graftFixed, max_display_depth, max_display_children,
                   delivered, nodes, next_node_id, ret, pc>>

\* a board of sixteen cells: the oracle rejects every first placement, and
\* the trace without the pruning goes three placements deep under them
OddProblem == [rows |-> 4, cols |-> 4, pieces |-> <<"L", "P", "V", "Y">>]

\* the problems of InitRect and OddProblem, with the pruning on and the caps
\* of animate_single_tree, under any budget
InitGraft ==
    /\ prog = "rect" /\ caller = "graft"
    /\ count = 0 /\ max_attempts = 0 /\ attempt = 0 /\ unique = <<>>
    /\ \/ /\ rows \in 1..MaxRows /\ cols \in 1..MaxCols
          /\ rows * cols <= MaxCells
          /\ mask_cells \in Masks(rows, cols)
          /\ selected_pieces = PieceKeys
       \/ /\ rows = DeepProblem.rows /\ cols = DeepProblem.cols
          /\ mask_cells = FullMask(rows, cols)
          /\ selected_pieces = DeepProblem.pieces
       \/ /\ rows = OddProblem.rows /\ cols = OddProblem.cols
          /\ mask_cells = FullMask(rows, cols)
          /\ selected_pieces = OddProblem.pieces
    /\ sorted_mask = SortedCells(mask_cells)
    /\ allowed_keys = KeySet(mask_cells)
    /\ enable_pruning = TRUE
    /\ max_display_depth = DEFAULT_DISPLAY_DEPTH
    /\ max_display_children = DefaultMaxDisplayChildren
    /\ max_nodes \in NodeBudgets
    /\ max_steps = 0 /\ seed = 0 /\ rng = 0
    /\ used = {} /\ filled_keys = {} /\ board = <<>> /\ tried = <<>>
    /\ ret = NoRet /\ pc = "run" /\ delivered = <<>>
    /\ nodes = RectRootNodes
    /\ events = <<EnterEvent(0)>>
    /\ next_node_id = 1 /\ node_counter = 0
    /\ step_elapsed_ms = <<"ms">>
    /\ stack = RectStartStack

NextGraft ==
    \/ NextRect \/ TraceVanilla
    \/ GraftCall \/ GraftLoop \/ CloneCall \/ CloneLoop \/ CloneResume

SpecGraft == InitGraft /\ [][NextGraft]_vars

(***************************************************************************)
(* rect_6x10DFSTree.animate_single_tree: the walk over the enter events    *)
(* that shows the step counters.  Its local variables are the fields of    *)
(* the one frame of the walk.  caller = "graft" is the call with           *)
(* enable_pruning=True, caller = "plain" the call with enable_pruning=False *)
(* (lines 760-766 are skipped).                                            *)
(***************************************************************************)
\* trace and vanilla_trace of animate_single_tree
WalkedTrace == IF caller = "graft" THEN ret ELSE delivered[1]

VanillaTrace == IF caller = "graft" THEN delivered[2] ELSE Delivered

\* line 742: s = max(0, min(step, len(trace.step_elapsed_ms) - 1))
elapsed_index(trace, step) ==
    Max0(IF step < Len(trace.step_elapsed_ms) - 1
         THEN step ELSE Len(trace.step_elapsed_ms) - 1)

\* line 743: trace.step_elapsed_ms[s], s counted from 0
elapsed_at_step(trace, step) ==
    trace.step_elapsed_ms[elapsed_index(trace, step) + 1]

\* the shown step without the cap at total_steps
mod_step_uncapped(shown_mod_step, step_at_enter, total_steps) ==
    IF shown_mod_step + 1 > step_at_enter
    THEN shown_mod_step + 1 ELSE step_at_enter

\* lines 832-833: max(shown_mod_step + 1, node.step_at_enter), then
\* min(mod_step, trace.total_steps)
mod_step_of(shown_mod_step, step_at_enter, total_steps) ==
    LET m == IF shown_mod_step + 1 > step_at_enter
             THEN shown_mod_step + 1 ELSE step_at_enter
    IN IF m < total_steps THEN m ELSE total_steps

\* lines 835-836: int(round(mod_step / max(1, total_steps) * vanilla_total)).
\* The quotient and the product are floating-point numbers: a product that
\* is not half-way between two integers rounds to the nearer one; one that
\* is half-way in exact arithmetic may come out on either side of the half.
vanilla_steps(mod_step, total_steps, vanilla_total) ==
    LET den == IF total_steps > 1 THEN total_steps ELSE 1
        num == mod_step * vanilla_total
        q == num \div den
        r == num % den
    IN IF 2 * r < den THEN {q}
       ELSE IF 2 * r > den THEN {q + 1}
       ELSE {q, q + 1}

walkFixed == <<graftFixed, max_display_depth, max_display_children,
               delivered, nodes, events, next_node_id, ret>>

\* lines 745-766 are over, line 813: shown_mod_step = 0; the counter lines
\* show step 0 (lines 798-803)
WalkCall ==
    /\ prog = "rect"
    /\ \/ caller = "graft" /\ pc = "grafted"
       \/ caller = "plain" /\ pc = "done" /\ Len(delivered) = 1
    /\ stack' = <<[phase |-> "walk", ei |-> 0, shown_mod_step |-> 0,
                   mod_step |-> 0, mod_index |-> NoId, mod_elapsed |-> None,
                   vanilla_step |-> 0, vanilla_index |-> NoId,
                   vanilla_elapsed |-> None]>>
    /\ pc' = "walk"
    /\ UNCHANGED walkFixed

\* lines 815-880: one event of the trace; an enter event updates the two
\* counter lines; lines 882-906: after the last event the counter lines
\* are set to the totals of the two traces
WalkLoop ==
    /\ prog = "rect" /\ pc = "walk" /\ Top.phase = "walk"
    /\ \E trace \in {WalkedTrace} :
       IF Top.ei >= Len(trace.events)
       THEN /\ stack' = SetTop(
                     [Top EXCEPT !.phase = "final",
                                 !.mod_step = trace.total_steps,
                                 !.vanilla_step = VanillaTrace.total_steps])
            /\ pc' = "walked"
       ELSE \E event \in {trace.events[Top.ei + 1]} :
            IF event.kind # "enter"
            THEN /\ stack' = SetTop([Top EXCEPT !.ei = @ + 1])
                 /\ UNCHANGED pc
            ELSE \E vanilla_trace \in {VanillaTrace} :
                 \E mod_step \in {mod_step_of(Top.shown_mod_step,
                                      trace.nodes[event.node_id].step_at_enter,
                                      trace.total_steps)} :
                 \E vanilla_step \in vanilla_steps(mod_step, trace.total_steps,
                                                  vanilla_trace.total_steps) :
                    /\ stack' = SetTop(
                          [Top EXCEPT
                             !.ei = @ + 1,
                             !.mod_step = mod_step,
                             !.mod_index = elapsed_index(trace, mod_step),
                             !.mod_elapsed = elapsed_at_step(trace, mod_step),
                             !.vanilla_step = vanilla_step,
                             !.vanilla_index =
                                 elapsed_index(vanilla_trace, vanilla_step),
                             !.vanilla_elapsed =
                                 elapsed_at_step(vanilla_trace, vanilla_step),
                             !.shown_mod_step = mod_step])
                    /\ UNCHANGED pc
    /\ UNCHANGED walkFixed

\* animate_single_tree called with enable_pruning=False: the problems and
\* the caps of InitGraft
InitPlain ==
    /\ prog = "rect" /\ caller = "plain"
    /\ count = 0 /\ max_attempts = 0 /\ attempt = 0 /\ unique = <<>>
    /\ \/ /\ rows \in 1..MaxRows /\ cols \in 1..MaxCols
          /\ rows * cols <= MaxCells
          /\ mask_cells \in Masks(rows, cols)
          /\ selected_pieces = PieceKeys
       \/ /\ rows = DeepProblem.rows /\ cols = DeepProblem.cols
          /\ mask_cells = FullMask(rows, cols)
          /\ selected_pieces = DeepProblem.pieces
    /\ sorted_mask = SortedCells(mask_cells)
    /\ allowed_keys = KeySet(mask_cells)
    /\ enable_pruning = FALSE
    /\ max_display_depth = DEFAULT_DISPLAY_DEPTH
    /\ max_display_children = DefaultMaxDisplayChildren
    /\ max_nodes \in NodeBudgets
    /\ max_steps = 0 /\ seed = 0 /\ rng = 0
    /\ used = {} /\ filled_keys = {} /\ board = <<>> /\ tried = <<>>
    /\ ret = NoRet /\ pc = "run" /\ delivered = <<>>
    /\ nodes = RectRootNodes
    /\ events = <<EnterEvent(0)>>
    /\ next_node_id = 1 /\ node_counter = 0
    /\ step_elapsed_ms = <<"ms">>
    /\ stack = RectStartStack

InitWalk == InitGraft \/ InitPlain

NextWalk == NextGraft \/ WalkCall \/ WalkLoop

SpecWalk == InitWalk /\ [][NextWalk]_vars

(***************************************************************************)
(* Definitions the claims are stated with.                                 *)
(***************************************************************************)
\* the boards of the model that distinct pentominoes cover exactly
TileableBoards ==
    {rc \in (1..MaxRows) \X (1..MaxCols) :
        /\ rc[1] * rc[2] <= MaxCells
        /\ Tileable(GridCells(rc[1], rc[2]), PieceNames, TRUE)}

\* a list of (name, cells) placements is an exact cover of the r x c board
IsExactCover(sol, r, c) ==
    /\ \A i \in DOMAIN sol :
          /\ Len(sol[i][2]) = 5
          /\ Cardinality(CellSet(sol[i][2])) = 5
          /\ CellSet(sol[i][2]) \subseteq GridCells(r, c)
    /\ \A i, j \in DOMAIN sol :
          i # j => /\ CellSet(sol[i][2]) \cap CellSet(sol[j][2]) = {}
                   /\ sol[i][1] # sol[j][1]
    /\ UNION {CellSet(sol[i][2]) : i \in DOMAIN sol} = GridCells(r, c)

SolveDone == prog = "solve" /\ pc = "done"

(***************************************************************************)
(* Claims                                                                  *)
(***************************************************************************)
\* C1: a list returned by solve() started on the empty board is an exact
\* cover: every placement has 5 cells inside the board, no two placements
\* share a cell or a piece name, and together they cover every cell.
C1_SolveReturnsExactCover ==
    (SolveDone /\ ret # None) => IsExactCover(ret, rows, cols)

\* solve() returned a cover made of three pieces
C1_Witness == SolveDone /\ ret # None /\ Len(ret) = 3

\* C2: solve() started on the empty board ends with a value, and the value
\* is None exactly when distinct pentominoes cannot cover the board.
C2_SolveNoneIffNoCover ==
    /\ SolveDone => (ret = None <=> <<rows, cols>> \notin TileableBoards)
    /\ (prog = "solve" /\ pc = "run") => stack # <<>>

\* solve() returned None on a board it had to search with backtracking
C2_Witness == SolveDone /\ ret = None /\ rows * cols >= 10

\* solve() returned a cover of a board that has one
C2_WitnessCover == SolveDone /\ ret # None /\ <<rows, cols>> \in TileableBoards

\* the mask cells no piece covers
EmptyCells == {rc \in CellSet(mask_cells) : key(rc) \notin filled_keys}

OracleDone == prog = "oracle" /\ pc = "done"

\* C3: the oracle answers True on every board whose empty mask cells can be
\* covered exactly by pentominoes that do not overlap; the boards along a
\* full solution are among them.
C3_OracleNeverRejectsTileable ==
    (OracleDone /\ Tileable(EmptyCells, PieceNames, FALSE)) => ret = TRUE

\* the oracle was asked about a board with one piece laid whose ten empty
\* cells two further distinct pieces cover
C3_Witness ==
    /\ OracleDone /\ ret = TRUE
    /\ Cardinality(filled_keys) = 5 /\ Cardinality(EmptyCells) = 10
    /\ Tileable(EmptyCells, PieceNames, TRUE)

GridProg == prog \in {"search", "solve"}

TraceProg == prog \in {"trip", "rect"}

TraceDone == TraceProg /\ pc = "done"

\* the positions of node n's enter and exit events
EnterAt(n) ==
    {i \in DOMAIN events : events[i].kind = "enter" /\ events[i].node_id = n}

ExitAt(n) ==
    {i \in DOMAIN events : events[i].kind = "exit" /\ events[i].node_id = n}

\* C4: in the events build_trace returns, every node of the node table has
\* exactly one enter and exactly one later exit, the enter/exit pairs of two
\* nodes are nested or apart, and a child's pair lies inside its parent's.
C4_EventsWellNested ==
    TraceDone =>
      /\ \A n \in DOMAIN nodes :
            /\ Cardinality(EnterAt(n)) = 1
            /\ Cardinality(ExitAt(n)) = 1
            /\ Min(EnterAt(n)) < Min(ExitAt(n))
      /\ \A a, b \in DOMAIN nodes :
            a # b =>
              \/ Min(ExitAt(a)) < Min(EnterAt(b))
              \/ Min(ExitAt(b)) < Min(EnterAt(a))
              \/ Min(EnterAt(a)) < Min(EnterAt(b)) /\ Min(ExitAt(b)) < Min(ExitAt(a))
              \/ Min(EnterAt(b)) < Min(EnterAt(a)) /\ Min(ExitAt(a)) < Min(ExitAt(b))
      /\ \A n \in DOMAIN nodes :
            nodes[n].parent_id # NoId =>
              /\ Min(EnterAt(nodes[n].parent_id)) < Min(EnterAt(n))
              /\ Min(ExitAt(n)) < Min(ExitAt(nodes[n].parent_id))

\* the cells of the board or mask, and the ones a piece covers
BoardCells == IF GridProg THEN GridCells(rows, cols) ELSE CellSet(mask_cells)

OccupiedCells ==
    IF GridProg THEN {rc \in DOMAIN board : board[rc] # None} ELSE DOMAIN board

\* C5: during search(), solve() and build_trace's dfs every occupied cell is
\* a cell of the board or mask and holds one piece name, the pieces holding
\* cells are exactly the used set, each of them holds exactly 5 cells, and in
\* build_trace filled_keys is the set of keys of the board's cells.
C5_BoardAndUsedAgree ==
    /\ OccupiedCells \subseteq BoardCells
    /\ \A rc \in OccupiedCells : board[rc] \in PieceNames
    /\ {board[rc] : rc \in OccupiedCells} = used
    /\ \A n \in used : Cardinality({rc \in OccupiedCells : board[rc] = n}) = 5
    /\ TraceProg => filled_keys = {key(rc) : rc \in DOMAIN board}

\* build_trace (rect) holds two pieces after an earlier placement was undone
C5_Witness ==
    /\ prog = "rect" /\ pc = "run" /\ Cardinality(used) = 2
    /\ \E i \in DOMAIN events : events[i].kind = "exit"

FullyCovered == OccupiedCells = BoardCells

\* C6: in search() and solve() a call that returns while the board is not
\* fully covered leaves board and used as they were when it was entered.
C6_ReturnRestoresBoard ==
    [][(GridProg /\ Len(stack') < Len(stack) /\ ~FullyCovered')
          => (board' = Top.entry_board /\ used' = Top.entry_used)]_vars

\* what first_empty returns in this state
FirstEmpty ==
    IF GridProg THEN grid_first_empty(board, rows, cols)
    ELSE mask_first_empty(sorted_mask, filled_keys)

\* 5-cell tuples of the kind the loops hand to can_place: every piece as the
\* table lists it, its first cell or its last cell laid on the cell at
Probes(at) ==
    {Shifted(ORIENTATIONS[n][1], ORIENTATIONS[n][1][k], at) :
        n \in PieceNames, k \in {1, 5}}

\* C7: on the boards the searches reach, can_place(cells) is True exactly
\* when every cell of cells is a cell of the board or mask and no piece
\* covers it.
C7_CanPlaceIffAllFree ==
    LET at == FirstEmpty
        free == Listed(BoardCells \ OccupiedCells)
    IN at # None =>
          \A cells \in Probes(at) :
              (IF GridProg THEN grid_can_place(board, rows, cols, cells)
                           ELSE mask_can_place(allowed_keys, filled_keys, cells))
              <=> (\A i \in DOMAIN cells : cells[i] \in free)

\* a search holds a piece, and of the tuples tried at the first empty cell
\* one can be placed, one leaves the board and one runs into the piece
C7_Witness ==
    /\ prog = "search" /\ used # {} /\ FirstEmpty # None
    /\ \E cells \in Probes(FirstEmpty) :
          grid_can_place(board, rows, cols, cells)
    /\ \E cells \in Probes(FirstEmpty) : \E i \in DOMAIN cells :
          cells[i] \notin BoardCells
    /\ \E cells \in Probes(FirstEmpty) : \E i \in DOMAIN cells :
          cells[i] \in OccupiedCells

\* C8: first_empty returns the free cell that is smallest in row-major order
\* (row first, then column), and None exactly when no cell is free.
C8_FirstEmptyIsSmallestFree ==
    LET free == BoardCells \ OccupiedCells
    IN /\ FirstEmpty = None <=> free = {}
       /\ FirstEmpty # None =>
             /\ FirstEmpty \in free
             /\ \A o \in free : ~CellLess(o, FirstEmpty)

\* build_trace on a mask listed out of order, a piece laid, a free cell left
C8_Witness ==
    /\ TraceProg /\ mask_cells # sorted_mask
    /\ board # <<>> /\ FirstEmpty # None

\* C9: with max_display_depth = 3 and max_display_children = 3 no node of
\* build_trace's table has more than 3 children, and none lies deeper than 3
\* unless it is flagged as on the rightmost chain.
C9_DefaultCapsBoundTheTable ==
    (TraceProg /\ max_display_depth = 3 /\ max_display_children = 3) =>
        \A n \in DOMAIN nodes :
            /\ Len(nodes[n].children) <= 3
            /\ nodes[n].depth > 3 =>
                  (prog = "rect" /\ nodes[n].rightmost_chain)

\* build_trace (triplication) with the caps 3 and 3 has laid a fourth piece:
\* the table holds a node with 3 children and a node at depth 3
C9_Witness ==
    /\ prog = "trip" /\ pc = "run"
    /\ max_display_depth = 3 /\ max_display_children = 3
    /\ Cardinality(used) = 4
    /\ \E n \in DOMAIN nodes : Len(nodes[n].children) = 3
    /\ \E n \in DOMAIN nodes : nodes[n].depth = 3

\* build_trace (rect) with the caps 3 and 3 made a node at depth 4, and a
\* node with 3 children
C9_WitnessChain ==
    /\ prog = "rect" /\ pc = "done"
    /\ max_display_depth = 3 /\ max_display_children = 3
    /\ \E n \in DOMAIN nodes : nodes[n].depth = 4 /\ nodes[n].rightmost_chain
    /\ \E n \in DOMAIN nodes : Len(nodes[n].children) = 3

\* C10: of two calls on the same problem, one cut off by its budget and one
\* that ended with no solution, the caller is handed different results.
C10_CutOffToldFromNoSolution ==
    (pc = "done" /\ delivered # <<>> /\ delivered[1].cut_off /\ NoSolution)
        => delivered[1].result # Delivered

\* the cells where two grids differ
ChangedCells(b1, b2) == {rc \in DOMAIN b1 : b1[rc] # b2[rc]}

\* the event e tells the step from board to board': its five cells are the
\* cells that changed, from empty to the piece ("place") or back ("remove")
EventTells(e) ==
    /\ e[1] \in {"place", "remove"}
    /\ CellSet(e[2][2]) = ChangedCells(board, board')
    /\ \A rc \in CellSet(e[2][2]) :
          IF e[1] = "place"
          THEN board[rc] = None /\ board'[rc] = e[2][1]
          ELSE board[rc] = e[2][1] /\ board'[rc] = None
    /\ used' = IF e[1] = "place" THEN used \cup {e[2][1]} ELSE used \ {e[2][1]}

\* C11: search() appends one event for every placement and every removal
\* while fewer than max_steps events exist, never holds more than max_steps
\* events, and once max_steps events exist every step is a return that
\* leaves board, used and events alone.
C11_EventBudgetStopsSearch ==
    [][prog = "search" =>
         /\ Len(events') <= max_steps
         /\ (board' # board \/ used' # used \/ events' # events) =>
               /\ Len(events) < max_steps
               /\ events' = Append(events, events'[Len(events')])
               /\ EventTells(events'[Len(events')])
         /\ Len(events) >= max_steps =>
               /\ board' = board /\ used' = used /\ events' = events
               /\ Len(stack') < Len(stack)
               /\ ret' = TRUE]_vars

\* search() reached its budget on a removal below the outermost call and is
\* returning
C11_Witness ==
    /\ prog = "search" /\ pc = "run" /\ max_steps >= 3
    /\ Len(events) = max_steps
    /\ events[Len(events)][1] = "remove"
    /\ ret = TRUE /\ Len(stack) >= 1

\* C12: two solve() runs of solvers built with the same rows, cols and seed
\* (the default seed 0 among them) return the same placement sequence, or
\* both return None.
C12_SolveSameSeedSameResult ==
    (prog = "solve" /\ caller = "none" /\ pc = "done" /\ delivered # <<>>)
        => ret = delivered[1].result

\* the second run with the default seed returned a cover of three pieces
C12_Witness ==
    /\ prog = "solve" /\ caller = "none" /\ pc = "done" /\ delivered # <<>>
    /\ seed = 0 /\ ret # None /\ Len(ret) = 3

\* find_unique_solutions has returned, to construct() or to another caller
FindReturned == caller \in {"find", "construct"} /\ pc = "found"

\* the solutions among what the first n solvers returned, each signature once,
\* in the order found
RECURSIVE FirstFound(_)
FirstFound(n) ==
    IF n = 0 THEN <<>>
    ELSE LET before == FirstFound(n - 1)
             r == delivered[n].result
         IN IF r = None
               \/ \E i \in DOMAIN before :
                     solution_signature(before[i]) = solution_signature(r)
            THEN before
            ELSE Append(before, r)

\* C13: find_unique_solutions(count, max_attempts) returns at most count
\* solutions, in first-found order, with pairwise distinct signatures; the
\* solvers ran with seeds 1, 2, ... in order, at most max_attempts of them,
\* and none ran once count distinct solutions were found.
C13_FindReturnsAtMostCountDistinct ==
    FindReturned =>
        /\ Len(ret) <= count
        /\ ret = FirstFound(Len(delivered))
        /\ \A i, j \in DOMAIN ret :
              i # j => solution_signature(ret[i]) # solution_signature(ret[j])
        /\ \A i \in DOMAIN delivered : delivered[i].seed = i
        /\ Len(delivered) <= max_attempts
        /\ \A n \in DOMAIN delivered : Len(FirstFound(n - 1)) < count

\* C13 for a count of at least one
C13_FromCountOne == count >= 1 => C13_FindReturnsAtMostCountDistinct

\* C14: when find_unique_solutions returns with fewer than count distinct
\* solutions found, what its caller gets is a failure that tells how many
\* were found, and not the list of the solutions found.
C14_TooFewIsAnError ==
    (FindReturned /\ Len(unique) < count) => ret # UniqueValues(unique)

\* build_trace ran with pruning on a mask whose cell count is no multiple of 5
OddMaskDone ==
    TraceDone /\ enable_pruning /\ Len(mask_cells) % 5 # 0

\* C15 as the specification has it: on such a mask the search fails in the root call, no
\* other dfs call is made and the node table holds the root alone.
C15_OddMaskNoPlacementNode ==
    OddMaskDone =>
        /\ ~ret.solved
        /\ node_counter = 1
        /\ DOMAIN nodes = {0}

\* C15: on such a mask the search fails in the root call and no other dfs
\* call is made, every first placement being rejected by the oracle; the
\* triplication table holds the root alone, the rect table holds the root
\* and, below it, only leaves marked pruned.
C15_OddMaskFailsInRootCall ==
    OddMaskDone =>
        /\ ~ret.solved
        /\ node_counter = 1
        /\ prog = "trip" => DOMAIN nodes = {0}
        /\ \A n \in DOMAIN nodes \ {0} :
              /\ nodes[n].pruned
              /\ nodes[n].parent_id = 0 /\ nodes[n].depth = 1
              /\ nodes[n].children = <<>>
              /\ Cardinality(DOMAIN nodes[n].board) = 5

\* build_trace (rect) ended on a mask of 6 cells with pruned leaves in the
\* table
C15_Witness ==
    /\ OddMaskDone /\ prog = "rect" /\ Len(mask_cells) = 6
    /\ max_nodes >= 1 /\ ~ret.aborted
    /\ Cardinality(DOMAIN nodes) > 2

OrientDone == prog = "orient" /\ pc = "done"

\* C16: unique_orientations returns 1, 2, 4 or 8 pairwise distinct
\* orientations; each has 5 distinct cells, smallest row 0 and smallest
\* column 0, is sorted by (row, column), and normalize returns it unchanged.
C16_OrientationsNormalized ==
    OrientDone =>
        /\ Len(ret) \in {1, 2, 4, 8}
        /\ \A i, j \in DOMAIN ret : i # j => ret[i] # ret[j]
        /\ \A i \in DOMAIN ret :
              /\ Len(ret[i]) = 5
              /\ Cardinality(CellSet(ret[i])) = 5
              /\ SeqMin(ret[i], 1) = 0
              /\ SeqMin(ret[i], 2) = 0
              /\ \A k \in 1..4 : CellLess(ret[i][k], ret[i][k + 1])
              /\ normalize(ret[i]) = ret[i]

\* unique_orientations returned the 8 orientations of F from its base shape
C16_Witness ==
    /\ OrientDone /\ Len(ret) = 8
    /\ ret[1] = normalize(PENTOMINOES["F"])
    /\ ret = ORIENTATIONS["F"]

\* the cells of E one step up, down, left or right of a cell of S
Beside(S, E) ==
    {rc \in E : \E o \in S :
        \/ (o[1] = rc[1] /\ (o[2] = rc[2] + 1 \/ o[2] = rc[2] - 1))
        \/ (o[2] = rc[2] /\ (o[1] = rc[1] + 1 \/ o[1] = rc[1] - 1))}

\* the 4-connected component of E that holds the cells of S
RECURSIVE Component(_, _)
Component(S, E) ==
    LET T == S \cup Beside(S, E)
    IN IF T = S THEN S ELSE Component(T, E)

\* C17: the oracle answers True exactly when every 4-connected component of
\* the unfilled mask cells has a cell count that is a multiple of 5.
C17_OracleIffRegionsMultipleOfFive ==
    OracleDone =>
        (ret = TRUE <=>
            \A rc \in EmptyCells :
                Cardinality(Component({rc}, EmptyCells)) % 5 = 0)

\* the oracle said True on a mask with filled cells and one unfilled region
\* of 5 cells that bends
C17_Witness ==
    /\ OracleDone /\ ret = TRUE
    /\ filled_keys # {} /\ Cardinality(EmptyCells) = 5
    /\ Cardinality({rc[1] : rc \in EmptyCells}) = 2

\* both traces of the triplication build_trace are over, the pruned one
\* first, and neither was cut off by max_nodes
BothTracesWhole ==
    /\ prog = "trip" /\ pc = "done" /\ delivered # <<>>
    /\ ~delivered[1].aborted /\ ~ret.aborted

\* C18: when neither run exceeds max_nodes, the root dfs call reports solved
\* with pruning exactly when it does without, and the pruned run makes no
\* more dfs calls than the unpruned run.
C18_PruningKeepsSolvedAndSavesCalls ==
    BothTracesWhole =>
        /\ delivered[1].solved = ret.solved
        /\ delivered[1].count <= ret.count
        /\ ret.count = node_counter

\* both runs found a cover, the pruned one with fewer dfs calls
C18_Witness ==
    /\ BothTracesWhole /\ ret.solved /\ delivered[1].solved
    /\ delivered[1].count < ret.count

\* a dfs call is about to check the budget and will find it exceeded
OverBudgetCall ==
    TraceProg /\ pc = "run" /\ Top.phase = "entry" /\ node_counter + 1 > max_nodes

\* a dfs call has returned aborted to the frame that called it
AbortedBelow ==
    TraceProg /\ pc = "run" /\ Top.phase = "wait" /\ ret.aborted

\* C19: a dfs call that finds the step counter above max_nodes returns
\* aborted; from then on every step is the return of the enclosing frame
\* with solved False and aborted True, and no dfs call, no placement and no
\* new node follows.
C19_AbortUnwindsEveryFrame ==
    [][/\ OverBudgetCall =>
             /\ Len(stack') < Len(stack)
             /\ ret'.aborted /\ ~ret'.solved
       /\ AbortedBelow =>
             /\ Len(stack') < Len(stack)
             /\ ret'.aborted /\ ~ret'.solved
             /\ node_counter' = node_counter
             /\ next_node_id' = next_node_id
             /\ DOMAIN nodes' = DOMAIN nodes
             /\ used' \subseteq used /\ filled_keys' \subseteq filled_keys
             /\ \A i \in (Len(events) + 1)..Len(events') :
                   events'[i].kind = "exit"]_vars

\* in the rect build_trace the abort has come up two frames from the call
\* that found the budget exceeded
C19_Witness ==
    /\ AbortedBelow /\ prog = "rect"
    /\ ret.count >= 2 /\ Len(stack) >= 2
    /\ node_counter > max_nodes /\ max_nodes >= 3

\* C20: whatever max_display_children is, no node of the table build_trace
\* returns has more than max_display_children children.
C20_ChildrenWithinFanOutCap ==
    TraceDone =>
        \A n \in DOMAIN nodes : Len(nodes[n].children) <= max_display_children

\* C20 for the triplication build_trace
C20_TripChildrenWithinCap == prog = "trip" => C20_ChildrenWithinFanOutCap

\* the node is flagged on the highlighted chain (only the rectangle
\* variant's nodes carry the flag)
OnChain(n) == prog = "rect" /\ nodes[n].rightmost_chain

\* C21: in the node table build_trace returns, a node that is not flagged on
\* the highlighted chain has depth at most max_display_depth, and a
\* chain-flagged node has depth at most RIGHTMOST_BRANCH_DEPTH.
C21_NodesWithinDepthCaps ==
    TraceDone =>
        \A n \in DOMAIN nodes :
            IF OnChain(n)
            THEN nodes[n].depth <= RIGHTMOST_BRANCH_DEPTH
            ELSE nodes[n].depth <= max_display_depth

\* the same for the triplication variant alone
C21_TripNodesWithinDepthCap == prog = "trip" => C21_NodesWithinDepthCaps

\* both traces of the caller that changes the display caps are over
BothCapsDone ==
    /\ prog \in {"trip", "rect"} /\ pc = "done" /\ delivered # <<>>
    /\ "total_steps" \in DOMAIN delivered[1]

\* C22: for a fixed problem, pruning setting and max_nodes, the placements
\* dfs searches, the solved and aborted flags its root call returns and
\* total_steps are the same whatever the display depth and fan-out caps.
C22_CapsDoNotChangeTheSearch ==
    BothCapsDone =>
        /\ tried = delivered[1].tried
        /\ ret.solved = delivered[1].solved
        /\ ret.aborted = delivered[1].aborted
        /\ node_counter = delivered[1].total_steps

\* the same for the triplication variant alone
C22_TripCapsDoNotChangeTheSearch ==
    prog = "trip" => C22_CapsDoNotChangeTheSearch

\* the same for the rectangle variant with the depth cap alone changed
C22_RectDepthCapDoesNotChangeTheSearch ==
    (prog = "rect" /\ max_display_children = DefaultMaxDisplayChildren)
        => C22_CapsDoNotChangeTheSearch

\* the nodes a step adds to the node table
NewNodes == (DOMAIN nodes') \ (DOMAIN nodes)

\* the loop of the innermost dfs call (rect) stands before a displayed
\* attempt of kind "pruned", and the call has a display node
AtPrunedAttempt ==
    /\ prog = "rect" /\ pc = "run" /\ Top.phase = "loop"
    /\ Top.display_node_id # NoId
    /\ \E idx \in Top.display_indices :
          /\ idx > Top.idx /\ idx < Len(Top.attempts)
          /\ \A o \in Top.display_indices : o > Top.idx => idx <= o
          /\ Top.attempts[idx + 1].kind = "pruned"

\* some region of the mask cells that b leaves empty has a cell count that
\* is not a multiple of five
LeavesOddRegion(b) ==
    LET E == CellSet(mask_cells) \ DOMAIN b
    IN \E rc \in E : Cardinality(Component({rc}, E)) % 5 # 0

\* C23: in build_trace (rect) with pruning, a displayed attempt the oracle
\* rejects gives exactly one node flagged pruned; its board is the current
\* board plus the rejected placement, its exit event comes right after its
\* enter event, dfs is not called for it (the step counter stays), and it
\* never gets a child.
C23_PrunedNodeIsTerminal ==
    [][prog = "rect" =>
        /\ AtPrunedAttempt =>
              /\ NewNodes = {next_node_id}
              /\ nodes'[next_node_id].pruned
        /\ \A n \in NewNodes : nodes'[n].pruned =>
              /\ NewNodes = {n}
              /\ AtPrunedAttempt /\ enable_pruning
              /\ events' = events \o <<[kind |-> "enter", node_id |-> n],
                                       [kind |-> "exit", node_id |-> n]>>
              /\ nodes'[n].children = <<>>
              /\ nodes'[n].parent_id = Top.display_node_id
              /\ node_counter' = node_counter /\ tried' = tried
              /\ step_elapsed_ms' = step_elapsed_ms
              /\ Len(stack') = Len(stack)
              /\ board' = board /\ used' = used /\ filled_keys' = filled_keys
              /\ LET b == nodes'[n].board
                     added == (DOMAIN b) \ (DOMAIN board)
                 IN /\ DOMAIN board \subseteq DOMAIN b
                    /\ \A rc \in DOMAIN board : b[rc] = board[rc]
                    /\ Cardinality(added) = 5
                    /\ added \subseteq CellSet(mask_cells)
                    /\ \E name \in PieceNames \ used :
                          \A rc \in added : b[rc] = name
                    /\ mask_first_empty(sorted_mask, filled_keys) \in added
                    /\ LeavesOddRegion(b)
        /\ \A n \in DOMAIN nodes : nodes[n].pruned =>
              /\ n \in DOMAIN nodes'
              /\ nodes'[n].children = <<>>
              /\ nodes'[n].board = nodes[n].board
    ]_vars

\* a finished trace with a pruned node under the root and a searched sibling
C23_Witness ==
    /\ prog = "rect" /\ pc = "done" /\ enable_pruning
    /\ \E n \in DOMAIN nodes : \E m \in DOMAIN nodes :
          /\ nodes[n].pruned /\ nodes[n].parent_id = 0
          /\ ~nodes[m].pruned /\ nodes[m].parent_id = 0
          /\ \E i \in DOMAIN events :
                /\ i < Len(events)
                /\ events[i] = EnterEvent(n) /\ events[i + 1] = ExitEvent(n)

\* the names of selected_pieces
SelectedNames == {selected_pieces[i] : i \in DOMAIN selected_pieces}

\* the pieces lying on board b
PiecesOn(b) == {b[rc] : rc \in DOMAIN b}

\* the mask cells b leaves empty can be covered exactly by selected pieces
\* that are not on b, no piece twice
HasCoverFrom(b) ==
    Tileable(CellSet(mask_cells) \ DOMAIN b, SelectedNames \ PiecesOn(b), TRUE)

\* the nodes flagged rightmost_chain
ChainNodes == {n \in DOMAIN nodes : nodes[n].rightmost_chain}

\* board c is board b with one more piece on five empty cells
OneMoveOn(b, c) ==
    /\ DOMAIN b \subseteq DOMAIN c
    /\ \A rc \in DOMAIN b : c[rc] = b[rc]
    /\ Cardinality((DOMAIN c) \ (DOMAIN b)) = 5
    /\ \E name \in SelectedNames \ PiecesOn(b) :
          \A rc \in (DOMAIN c) \ (DOMAIN b) : c[rc] = name

\* build_trace (rect) returned without running out of budget on a problem
\* that has a full cover of at most RIGHTMOST_BRANCH_DEPTH pieces
SolvableRectDone ==
    /\ prog = "rect" /\ pc = "done" /\ ~ret.aborted
    /\ Len(mask_cells) <= 5 * RIGHTMOST_BRANCH_DEPTH
    /\ HasCoverFrom(<<>>)

\* C24: build_trace (rect) on a problem with a full cover of at most 12
\* pieces, the budget not exceeded: the root dfs call returns solved, one
\* child of the root is flagged on the chain, every chain node whose board
\* leaves a mask cell empty has exactly one child, that child is flagged, its
\* board is one more placement that can still be completed to a full cover,
\* and the chain ends in a node whose board covers the whole mask.  (With an
\* empty mask the root's own board covers the mask and no node is flagged.)
C24_ChainDescendsToACover ==
    SolvableRectDone =>
        /\ ret.solved
        /\ mask_cells # <<>> =>
              /\ \E n \in ChainNodes :
                    /\ nodes[n].parent_id = 0
                    /\ OneMoveOn(<<>>, nodes[n].board)
                    /\ HasCoverFrom(nodes[n].board)
              /\ \E n \in ChainNodes :
                    DOMAIN nodes[n].board = CellSet(mask_cells)
        /\ \A n \in ChainNodes :
              IF DOMAIN nodes[n].board = CellSet(mask_cells)
              THEN nodes[n].children = <<>>
              ELSE /\ Len(nodes[n].children) = 1
                   /\ nodes[n].children[1] \in ChainNodes
                   /\ OneMoveOn(nodes[n].board,
                                nodes[nodes[n].children[1]].board)
                   /\ HasCoverFrom(nodes[nodes[n].children[1]].board)

\* a finished trace of the four-piece problem: the chain is four nodes deep,
\* below the root's display depth, and the root has other children
C24_Witness ==
    /\ SolvableRectDone /\ ret.solved
    /\ Len(mask_cells) = 20
    /\ \E n \in ChainNodes :
          /\ nodes[n].depth = 4
          /\ DOMAIN nodes[n].board = CellSet(mask_cells)
    /\ Len(nodes[0].children) > 1

\* C25: in the node table build_trace (rect) returns, the nodes flagged
\* rightmost_chain form one lineage: the root is not flagged, no two flagged
\* nodes have the same depth, a flagged node deeper than 1 is a child of the
\* flagged node one level up, and a flagged node has at most one child.
C25_ChainIsOneLineage ==
    (prog = "rect" /\ pc = "done") =>
        /\ 0 \notin ChainNodes
        /\ \A n, m \in ChainNodes : nodes[n].depth = nodes[m].depth => n = m
        /\ \A n \in ChainNodes :
              /\ nodes[n].depth >= 1
              /\ Len(nodes[n].children) <= 1
              /\ nodes[n].parent_id \in DOMAIN nodes
              /\ nodes[nodes[n].parent_id].depth = nodes[n].depth - 1
              /\ \E i \in DOMAIN nodes[nodes[n].parent_id].children :
                    nodes[nodes[n].parent_id].children[i] = n
              /\ nodes[n].depth > 1 => nodes[n].parent_id \in ChainNodes
              /\ nodes[n].depth = 1 => nodes[n].parent_id = 0

\* a finished trace, cut off or not, whose chain is three nodes long while
\* the root has three children
C25_Witness ==
    /\ prog = "rect" /\ pc = "done"
    /\ Cardinality(ChainNodes) = 3
    /\ Len(nodes[0].children) = 3
    /\ \E n \in DOMAIN nodes : nodes[n].depth = 2 /\ n \notin ChainNodes

\* add_pruned_descendants_from_unpruned has returned
GraftDone == prog = "rect" /\ caller = "graft" /\ pc = "grafted"

\* the ids of pruned_trace and the ids the function added
PrimaryIds == DOMAIN delivered[1].nodes

GraftedIds == (DOMAIN ret.nodes) \ PrimaryIds

\* ids are distinct, grafted ids lie above every primary id, and every
\* child id a node lists is in the table with that node as its parent
MergedIdsAndLinks ==
    /\ \A n \in DOMAIN ret.nodes : ret.nodes[n].node_id = n
    /\ \A g \in GraftedIds : \A n \in PrimaryIds : g > n
    /\ \A n \in DOMAIN ret.nodes :
          /\ \A i \in DOMAIN ret.nodes[n].children :
                /\ ret.nodes[n].children[i] \in DOMAIN ret.nodes
                /\ ret.nodes[ret.nodes[n].children[i]].parent_id = n
          /\ \A i, j \in DOMAIN ret.nodes[n].children :
                ret.nodes[n].children[i] = ret.nodes[n].children[j] => i = j

\* C26 as the specification has it: after
\* add_pruned_descendants_from_unpruned every node of the primary trace has
\* its identifier and its contents as before, every grafted identifier is
\* greater than every primary one, the identifiers are distinct, and every
\* child id a node lists is in the table with that node as parent_id.
C26_PrimaryNodesKeepContents ==
    GraftDone =>
        /\ \A n \in PrimaryIds :
              n \in DOMAIN ret.nodes /\ ret.nodes[n] = delivered[1].nodes[n]
        /\ MergedIdsAndLinks

\* C26, amended: every node of the primary trace keeps its identifier and
\* every field but children; the children list of a node that is not
\* pruned is as before, the one of a pruned node (empty before) lists
\* grafted ids only; grafted ids are greater than every primary id, ids are
\* distinct, and every child id a node lists is in the table with that
\* node as parent_id.
C26_PrimaryNodesKeepAllButChildren ==
    GraftDone =>
        /\ \A n \in PrimaryIds :
              /\ n \in DOMAIN ret.nodes
              /\ [ret.nodes[n] EXCEPT !.children = <<>>]
                    = [delivered[1].nodes[n] EXCEPT !.children = <<>>]
              /\ IF delivered[1].nodes[n].pruned
                 THEN /\ delivered[1].nodes[n].children = <<>>
                      /\ \A i \in DOMAIN ret.nodes[n].children :
                            ret.nodes[n].children[i] \in GraftedIds
                 ELSE ret.nodes[n].children = delivered[1].nodes[n].children
        /\ MergedIdsAndLinks

\* a merged table in which a pruned primary node has two grafted children
\* and a grafted node has a grafted child
C26_Witness ==
    /\ GraftDone
    /\ \E n \in PrimaryIds :
          /\ ret.nodes[n].pruned /\ Len(ret.nodes[n].children) >= 2
    /\ \E g \in GraftedIds : ret.nodes[g].parent_id \in GraftedIds

\* the positions of the enter and exit events of node n in evs
EntersOf(evs, n) ==
    {i \in DOMAIN evs : evs[i].kind = "enter" /\ evs[i].node_id = n}

ExitsOf(evs, n) ==
    {i \in DOMAIN evs : evs[i].kind = "exit" /\ evs[i].node_id = n}

\* every node of ns has one enter and one later exit in evs, the pairs of
\* two nodes are nested or apart, and a child's pair lies inside its parent's
WellNested(ns, evs) ==
    /\ \A n \in DOMAIN ns :
          /\ Cardinality(EntersOf(evs, n)) = 1
          /\ Cardinality(ExitsOf(evs, n)) = 1
          /\ Min(EntersOf(evs, n)) < Min(ExitsOf(evs, n))
    /\ \A i \in DOMAIN evs : evs[i].node_id \in DOMAIN ns
    /\ \A a, b \in DOMAIN ns :
          a # b =>
            \/ Min(ExitsOf(evs, a)) < Min(EntersOf(evs, b))
            \/ Min(ExitsOf(evs, b)) < Min(EntersOf(evs, a))
            \/ /\ Min(EntersOf(evs, a)) < Min(EntersOf(evs, b))
               /\ Min(ExitsOf(evs, b)) < Min(ExitsOf(evs, a))
            \/ /\ Min(EntersOf(evs, b)) < Min(EntersOf(evs, a))
               /\ Min(ExitsOf(evs, a)) < Min(ExitsOf(evs, b))
    /\ \A n \in DOMAIN ns :
          ns[n].parent_id # NoId =>
            /\ Min(EntersOf(evs, ns[n].parent_id)) < Min(EntersOf(evs, n))
            /\ Min(ExitsOf(evs, n)) < Min(ExitsOf(evs, ns[n].parent_id))

IsPrimaryEvent(e) == e.node_id \in PrimaryIds

\* the primary node a node of the merged table hangs under (itself, if it
\* is a primary node)
RECURSIVE PrimaryAbove(_)
PrimaryAbove(n) ==
    IF n \in PrimaryIds THEN n ELSE PrimaryAbove(ret.nodes[n].parent_id)

\* C27: the events add_pruned_descendants_from_unpruned returns hold the
\* events of the primary trace in their order, with nothing but enter and
\* exit events of grafted nodes in between; every grafted event lies between
\* the enter and the exit event of the pruned primary node it hangs under;
\* and the returned events are well nested over the merged table whenever
\* the primary events are over the primary table.
C27_GraftedEventsNestUnderPrunedNode ==
    GraftDone =>
        /\ SelectSeq(ret.events, IsPrimaryEvent) = delivered[1].events
        /\ \A i \in DOMAIN ret.events :
              ret.events[i].node_id \in GraftedIds =>
                 LET pr == PrimaryAbove(ret.events[i].node_id)
                 IN /\ ret.nodes[pr].pruned
                    /\ EntersOf(ret.events, pr) # {}
                    /\ ExitsOf(ret.events, pr) # {}
                    /\ Min(EntersOf(ret.events, pr)) < i
                    /\ i < Min(ExitsOf(ret.events, pr))
        /\ \A g \in GraftedIds :
              /\ Cardinality(EntersOf(ret.events, g)) = 1
              /\ Cardinality(ExitsOf(ret.events, g)) = 1
        /\ WellNested(delivered[1].nodes, delivered[1].events)
              => WellNested(ret.nodes, ret.events)

\* merged events of a well-nested primary trace in which a grafted pair lies
\* inside another grafted pair
C27_Witness ==
    /\ GraftDone
    /\ WellNested(delivered[1].nodes, delivered[1].events)
    /\ \E g, h \in GraftedIds :
          /\ ret.nodes[h].parent_id = g
          /\ Min(EntersOf(ret.events, g)) < Min(EntersOf(ret.events, h))
          /\ Min(ExitsOf(ret.events, h)) < Min(ExitsOf(ret.events, g))

\* merged events of a primary trace that was cut off and is not well nested
C27_WitnessCutOff ==
    /\ GraftDone /\ GraftedIds # {}
    /\ ~WellNested(delivered[1].nodes, delivered[1].events)

\* C28: every node add_pruned_descendants_from_unpruned adds is flagged
\* counterfactual and not pruned, lies one level below its parent and at
\* depth max_display_depth at most, hangs under a pruned primary node, and
\* is the copy of a node of the unpruned trace whose parent there has the
\* board signature of the node it was put under; no pruned and no grafted
\* node has more than max_display_children children.
C28_GraftsAreBoundedCopies ==
    GraftDone =>
        /\ \A g \in GraftedIds :
              /\ ret.nodes[g].counterfactual /\ ~ret.nodes[g].pruned
              /\ ret.nodes[g].depth <= max_display_depth
              /\ ret.nodes[g].parent_id \in DOMAIN ret.nodes
              /\ ret.nodes[g].depth = ret.nodes[ret.nodes[g].parent_id].depth + 1
              /\ ret.nodes[PrimaryAbove(g)].pruned
              /\ ~ret.nodes[PrimaryAbove(g)].counterfactual
              /\ \E v \in DOMAIN delivered[2].nodes :
                    /\ delivered[2].nodes[v].board = ret.nodes[g].board
                    /\ delivered[2].nodes[v].parent_id # NoId
                    /\ board_signature(
                           delivered[2].nodes[delivered[2].nodes[v].parent_id].board)
                         = board_signature(ret.nodes[ret.nodes[g].parent_id].board)
        /\ \A n \in DOMAIN ret.nodes :
              (ret.nodes[n].pruned \/ n \in GraftedIds) =>
                  Len(ret.nodes[n].children) <= max_display_children

\* a merged table made with a fan-out cap of 2 that cut the copy short: a
\* pruned node has two grafted children where the unpruned trace shows three
C28_Witness ==
    /\ GraftDone /\ max_display_children = 2
    /\ \E n \in PrimaryIds :
          /\ ret.nodes[n].pruned /\ Len(ret.nodes[n].children) = 2
          /\ \E u \in DOMAIN delivered[2].nodes :
                /\ delivered[2].nodes[u].board = ret.nodes[n].board
                /\ Len(delivered[2].nodes[u].children) = 3

\* C29: add_pruned_descendants_from_unpruned leaves its two input traces as
\* they were: from the call to the return, pruned_trace and unpruned_trace
\* (node tables with every children list and board, event lists, step
\* samples) do not change.
C29_GraftLeavesInputsUnchanged ==
    [][(prog = "rect" /\ caller = "graft") =>
        /\ (pc = "done" /\ pc' = "graft") =>
              /\ Len(delivered') = 2
              /\ delivered'[1] = delivered[1]
              /\ delivered'[2] = Delivered
        /\ pc = "graft" => delivered' = delivered
    ]_vars

\* the function has returned a table in which a pruned node lists grafted
\* children, while the same node of pruned_trace still lists none
C29_Witness ==
    /\ GraftDone
    /\ \E n \in PrimaryIds :
          /\ Len(ret.nodes[n].children) >= 2
          /\ delivered[1].nodes[n].children = <<>>
    /\ Len(ret.events) > Len(delivered[1].events)

\* the four searches once more, for the claim about anchors
SpecSolvers == Init /\ [][Next]_vars

\* the cells a step covers that were empty before it
NewlyCovered == OccupiedCells' \ OccupiedCells

\* the grid after the first n placements of sol on the empty grid
RECURSIVE GridAfter(_, _)
GridAfter(sol, n) ==
    IF n = 0 THEN EmptyGrid(rows, cols)
    ELSE grid_apply_place(GridAfter(sol, n - 1), sol[n][1], sol[n][2])

\* C30: in search(), solve() and build_trace's dfs every placement that is
\* applied covers the cell first_empty() gave just before it (a step that
\* covers cells covers five of them, the first empty one among them; every
\* attempt dfs lists holds the anchor; the board of every new node covers
\* the first cell its parent's board leaves empty); and in a list solve()
\* returns the i-th placement holds the first cell the i-1 placements
\* before it leave empty.
C30_PlacementsCoverTheAnchor ==
    [][/\ NewlyCovered # {} =>
             /\ FirstEmpty \in NewlyCovered
             /\ Cardinality(NewlyCovered) = 5
       /\ (prog = "rect" /\ pc = "run" /\ pc' = "run"
             /\ Len(stack') >= Len(stack) /\ Top.phase = "entry") =>
             \A i \in DOMAIN stack'[Len(stack)].attempts :
                 FirstEmpty \in CellSet(stack'[Len(stack)].attempts[i].shifted)
       /\ (TraceProg /\ pc = "run") =>
             \A n \in NewNodes :
                 LET below == DOMAIN nodes'[nodes'[n].parent_id].board
                 IN /\ below \subseteq DOMAIN nodes'[n].board
                    /\ mask_first_empty(sorted_mask, {key(rc) : rc \in below})
                          \in (DOMAIN nodes'[n].board) \ below
       /\ (prog = "solve" /\ pc' = "done" /\ ret' # None) =>
             \A i \in DOMAIN ret' :
                 grid_first_empty(GridAfter(ret', i - 1), rows, cols)
                     \in CellSet(ret'[i][2])
    ]_vars

\* solve() has returned three placements: the first one holds the corner
\* and the second one the first cell the first one leaves empty, three or
\* more columns further on
C30_Witness ==
    /\ SolveDone /\ ret # None /\ Len(ret) = 3
    /\ <<0, 0>> \in CellSet(ret[1][2])
    /\ grid_first_empty(GridAfter(ret, 1), rows, cols)[2] >= 3
    /\ grid_first_empty(GridAfter(ret, 1), rows, cols) \in CellSet(ret[2][2])

(***************************************************************************)
(* Termination and recursion depth.                                        *)
(***************************************************************************)
InitHalt == InitSearch \/ InitSolve \/ InitTrip

NextHalt == NextSearch \/ NextSolve \/ NextTrip

SpecHalt == InitHalt /\ [][NextHalt]_vars

\* how far the loops of one call have come: the number of the candidate the
\* call is at (solve: name, orientation and anchor counted as one number),
\* and within one candidate: being searched (1), then done with (2)
LoopPosition(f) ==
    IF prog = "solve" THEN (f.ni * 9 + f.oi) * 6 + f.ai ELSE f.pos

\* the highest number a candidate of one call can have
LastPosition ==
    IF prog = "solve" THEN (Len(SortedNames) * 9 + 8) * 6 + 5
    ELSE IF prog = "search" THEN Len(SearchCands)
    ELSE Len(FlattenNames(selected_pieces, 1))

CallProgress(f) ==
    IF f.phase = "entry" THEN 0
    ELSE IF f.phase = "wait" THEN 3 * LoopPosition(f) + 1
    ELSE 3 * LoopPosition(f) + 2

Odometer(st) == [k \in DOMAIN st |-> CallProgress(st[k])]

\* odometer b is further on than odometer a: at the first place where they
\* differ b has the higher number, or b has no number there because the call
\* has returned
FurtherOn(a, b) ==
    \E i \in DOMAIN a :
        /\ \A j \in 1..(i - 1) : j <= Len(b) /\ a[j] = b[j]
        /\ i > Len(b) \/ a[i] < b[i]

\* the pieces a search may place
AvailablePieces ==
    IF prog \in {"search", "solve"} THEN PieceNames
    ELSE {selected_pieces[i] : i \in DOMAIN selected_pieces}

\* the frames of the search itself (solve_first of the rect variant is a
\* helper that runs inside one dfs call)
DfsFrames == {k \in DOMAIN stack : "first_move" \notin DOMAIN stack[k]}

\* C31: DFSSolver.solve, SearchState.search and build_trace return on every
\* board for every budget: while they run the k-th nested call was entered
\* with exactly k - 1 distinct pieces in use, all of them available pieces,
\* so that the depth is at most the number of available pieces plus one;
\* every call is at one of finitely many candidates; and every step moves
\* the odometer of the candidate numbers of the nested calls further on, so
\* that only finitely many steps can be taken.
C31_SearchesTerminateWithBoundedDepth ==
    /\ [](pc = "run" =>
            \A k \in DfsFrames :
                /\ Cardinality(stack[k].entry_used) = k - 1
                /\ stack[k].entry_used \subseteq AvailablePieces
                /\ k <= Cardinality(AvailablePieces) + 1
                /\ LoopPosition(stack[k]) \in 0..LastPosition)
    /\ [][FurtherOn(Odometer(stack), Odometer(stack'))]_vars

\* a search as deep as the bound allows: every available piece is in use in
\* the innermost call
C31_Witness ==
    /\ pc = "run" /\ prog = "trip"
    /\ Len(stack) = Cardinality(AvailablePieces) + 1
    /\ Top.entry_used = AvailablePieces

(***************************************************************************)
(* The order in which orientations and anchor cells are tried.             *)
(***************************************************************************)
InitOrder == InitOrient \/ InitSearch \/ InitTrip

NextOrder == NextOrient \/ NextSearch \/ NextTrip

SpecOrder == InitOrder /\ [][NextOrder]_vars

\* the fixed enumeration: not reflected with 0, 1, 2, 3 rotation steps, then
\* reflected with 0, 1, 2, 3 rotation steps
Enumeration(cells) == [n \in 1..8 |-> transform(cells, (n - 1) % 4, n > 4)]

\* the places of the enumeration that hold a shape no earlier place holds
FirstOccurrences(e) == {n \in DOMAIN e : \A m \in 1..(n - 1) : e[m] # e[n]}

\* the names in the order the outer loop of the search takes them
NamesInOrder == IF prog = "search" THEN SortedNames ELSE selected_pieces

\* the first empty cell of the running search
AnchorNow ==
    IF prog = "search" THEN grid_first_empty(board, rows, cols)
    ELSE mask_first_empty(sorted_mask, filled_keys)

\* where a placement stands in the three loops: the number of its name, of
\* its orientation in the piece's list and of the orientation's cell that
\* lies on the anchor
RankOf(name, shifted, anchor) ==
    <<CHOOSE n \in DOMAIN NamesInOrder : NamesInOrder[n] = name,
      CHOOSE o \in DOMAIN ORIENTATIONS[name] :
          ORIENTATIONS[name][o] = normalize(shifted),
      CHOOSE c \in DOMAIN shifted : shifted[c] = anchor>>

RankLess(a, b) ==
    \/ a[1] < b[1]
    \/ a[1] = b[1] /\ a[2] < b[2]
    \/ a[1] = b[1] /\ a[2] = b[2] /\ a[3] < b[3]

AllRanks ==
    {r \in (DOMAIN NamesInOrder) \X (1..8) \X (1..5) :
        r[2] <= Len(ORIENTATIONS[NamesInOrder[r[1]]])}

\* the placement at one place of the loops
CandidateAt(r, anchor) ==
    LET orient == ORIENTATIONS[NamesInOrder[r[1]]][r[2]]
    IN [i \in DOMAIN orient |->
           <<orient[i][1] + anchor[1] - orient[r[3]][1],
             orient[i][2] + anchor[2] - orient[r[3]][2]>>]

\* the loops pass over the candidate: its piece is in use, it cannot be
\* placed, or (build_trace with pruning) the oracle rejects it
PassedOver(r, anchor) ==
    LET shifted == CandidateAt(r, anchor)
    IN \/ NamesInOrder[r[1]] \in used
       \/ IF prog = "search"
          THEN ~grid_can_place(board, rows, cols, shifted)
          ELSE \/ ~mask_can_place(allowed_keys, filled_keys, shifted)
               \/ /\ enable_pruning
                  /\ ~has_only_five_multiple_void_regions(rows, cols,
                         allowed_keys, sorted_mask,
                         keys_apply(filled_keys, shifted))

\* the place of the loops the running call has come to
RankSoFar ==
    IF Top.pos = 0 THEN <<0, 0, 0>>
    ELSE RankOf(Top.name, Top.shifted, AnchorNow)

\* C32: unique_orientations lists the shapes of the fixed enumeration in
\* order of first occurrence, so its first element is the normalized base
\* shape; SearchState.search and build_trace take the candidates of a call
\* in the order of the names, then of the piece's orientations in that list,
\* then of the orientation's cells: the candidate searched next stands after
\* the one searched before, and every candidate between them is passed over.
C32_OrientationsTriedInListOrder ==
    [][/\ (prog = "orient" /\ pc = "run") =>
            \A e \in {Enumeration(Top.cells)} :
            \A F \in {FirstOccurrences(e)} :
               /\ Len(ret') = Cardinality(F)
               /\ \A i \in DOMAIN ret' : ret'[i] = e[KthOf(F, i)]
               /\ ret'[1] = normalize(Top.cells)
       /\ (prog \in {"search", "trip"} /\ pc = "run" /\ Top.phase = "loop") =>
            \A anchor \in {AnchorNow} :
            \A before \in {RankSoFar} :
            IF Len(stack') = Len(stack) + 1
            THEN \A now \in {RankOf(stack'[Len(stack)].name,
                                    stack'[Len(stack)].shifted, anchor)} :
                    /\ RankLess(before, now)
                    /\ \A r \in AllRanks :
                          (RankLess(before, r) /\ RankLess(r, now))
                              => PassedOver(r, anchor)
            ELSE (prog = "search" => ret' = FALSE) =>
                    \A r \in AllRanks :
                        RankLess(before, r) => PassedOver(r, anchor)
      ]_vars

\* the second call of search has searched one candidate, taken it off again
\* and is now searching a later orientation of a piece
C32_Witness ==
    /\ prog = "search" /\ pc = "run" /\ Len(stack) >= 3
    /\ stack[2].phase = "wait"
    /\ \A i \in DOMAIN events :
          events[i][1] = "remove" => events[i][2][1] # stack[1].name
    /\ \E i \in DOMAIN events :
          /\ events[i][1] = "remove"
          /\ grid_first_empty(stack[2].entry_board, rows, cols)
                \in CellSet(events[i][2][2])
    /\ \E o \in DOMAIN ORIENTATIONS[stack[2].name] :
          /\ o >= 2
          /\ ORIENTATIONS[stack[2].name][o] = normalize(stack[2].shifted)

\* the walk has just handled an enter event
ShownStep == pc = "walk" /\ Top.mod_index # NoId

\* C33: while animate_single_tree walks the enter events of the trace, the
\* step shown for it is max(previous shown step + 1, node.step_at_enter)
\* capped at total_steps: it never goes down, grafted nodes included, and
\* never exceeds trace.total_steps; and the index elapsed_at_step uses lies
\* within the list of step samples, for the trace and for the vanilla trace.
C33_ShownStepMonotoneAndCapped ==
    [][/\ (pc = "walk" /\ pc' = "walked") =>
            /\ Top'.mod_step >= Top.mod_step
            /\ Top'.mod_step <= WalkedTrace.total_steps
       /\ (pc = "walk" /\ pc' = "walk" /\ Top'.ei = Top.ei + 1
            /\ WalkedTrace.events[Top.ei + 1].kind = "enter") =>
          LET node == WalkedTrace.nodes[WalkedTrace.events[Top.ei + 1].node_id]
              larger == IF Top.mod_step + 1 > node.step_at_enter
                        THEN Top.mod_step + 1 ELSE node.step_at_enter
          IN /\ Top.shown_mod_step = Top.mod_step
             /\ Top'.mod_step = IF larger < WalkedTrace.total_steps
                                 THEN larger ELSE WalkedTrace.total_steps
             /\ Top'.mod_step >= Top.mod_step
             /\ Top'.mod_step <= WalkedTrace.total_steps
             /\ Top'.mod_index \in 0..(Len(WalkedTrace.step_elapsed_ms) - 1)
             /\ Top'.vanilla_index
                   \in 0..(Len(VanillaTrace.step_elapsed_ms) - 1)
      ]_vars

\* the walk shows the step of a grafted node whose own recorded step lies
\* beyond the steps of the trace: the cap holds the shown step down
C33_Witness ==
    /\ ShownStep /\ caller = "graft" /\ Top.ei >= 1
    /\ WalkedTrace.events[Top.ei].kind = "enter"
    /\ WalkedTrace.nodes[WalkedTrace.events[Top.ei].node_id].counterfactual
    /\ WalkedTrace.nodes[WalkedTrace.events[Top.ei].node_id].step_at_enter
          > WalkedTrace.total_steps
    /\ Top.mod_step = WalkedTrace.total_steps

\* a call of dfs or of solve_first returns at this step
RectCallReturns ==
    /\ prog = "rect" /\ pc = "run" /\ Len(stack') = Len(stack) - 1

\* C34: inside build_trace every call of dfs and every call of
\* solution_next_move (with the solve_first calls it makes) returns with
\* board, used and filled_keys exactly as they were when the call started,
\* whichever way it returns; so the working board is empty when build_trace
\* returns, also when a solution was found.
C34_CallsRestoreTheBoard ==
    /\ [][RectCallReturns =>
            /\ board' = Top.entry_board
            /\ used' = Top.entry_used
            /\ filled_keys' = Top.entry_keys]_vars
    /\ []((prog = "rect" /\ pc = "done") =>
            board = <<>> /\ used = {} /\ filled_keys = {})

\* build_trace has returned with a solution found three placements deep, and
\* the working board is empty
C34_Witness ==
    /\ prog = "rect" /\ pc = "done" /\ ret.solved
    /\ Len(tried) >= 3
    /\ \E n \in DOMAIN nodes : Cardinality(DOMAIN nodes[n].board) = 15
    /\ board = <<>> /\ used = {} /\ filled_keys = {}

\* one event replayed on the placements in force (open, the latest last):
\* a place event adds its placement, which must be of a piece not in force
\* and on free cells; a remove event takes the latest placement off, which
\* must be its own
ReplayEvent(st, e) ==
    IF ~st.ok THEN st
    ELSE IF e[1] = "place"
    THEN [ok |-> \A i \in DOMAIN st.open :
                    /\ st.open[i][1] # e[2][1]
                    /\ CellSet(st.open[i][2]) \cap CellSet(e[2][2]) = {},
          open |-> Append(st.open, e[2])]
    ELSE [ok |-> st.open # <<>> /\ st.open[Len(st.open)] = e[2],
          open |-> SubSeq(st.open, 1, Len(st.open) - 1)]

\* the events number lo to hi replayed in order on st: the first half, and
\* on what it gives the second half
RECURSIVE ReplayRange(_, _, _, _)
ReplayRange(st, evs, lo, hi) ==
    IF lo > hi THEN st
    ELSE IF lo = hi THEN ReplayEvent(st, evs[lo])
    ELSE CHOOSE r \in {ReplayRange(half, evs, (lo + hi) \div 2 + 1, hi) :
                          half \in {ReplayRange(st, evs, lo, (lo + hi) \div 2)}} :
            TRUE

\* the first n events replayed in order from an empty board
Replay(evs, n) == ReplayRange([ok |-> TRUE, open |-> <<>>], evs, 1, n)

\* the grid that holds the placements of open and nothing else
GridOf(open) ==
    [rc \in GridCells(rows, cols) |->
        IF \E i \in DOMAIN open : rc \in CellSet(open[i][2])
        THEN open[CHOOSE i \in DOMAIN open : rc \in CellSet(open[i][2])][1]
        ELSE None]

\* C35: at every point of SearchState.search and when it has returned, also
\* when the event budget made it return, the recorded events replay from an
\* empty board to the board and the used set the search holds; the events
\* are stack-like: every remove event takes off the latest placement still
\* in force, and no piece is placed while a placement of it is in force.
C35_BoardIsReplayOfEvents ==
    prog = "search" =>
        \A r \in {Replay(events, Len(events))} :
            /\ r.ok
            /\ board = GridOf(r.open)
            /\ used = {r.open[i][1] : i \in DOMAIN r.open}

\* search() has returned because the event budget was reached by a place
\* event, after removals, with pieces left on the board
C35_Witness ==
    /\ prog = "search" /\ pc = "done" /\ ret = TRUE
    /\ max_steps >= 4 /\ Len(events) = max_steps
    /\ events[Len(events)][1] = "place"
    /\ \E i \in DOMAIN events : events[i][1] = "remove"
    /\ Cardinality(used) >= 2
    /\ grid_first_empty(board, rows, cols) # None

\* C36: build_trace of the rectangle variant returns total_steps equal to the
\* number of dfs calls made (the outermost call and one call for every
\* placement searched), total_steps <= max_nodes + 1 with equality exactly
\* when the search was aborted, and one step sample more than total_steps.
C36_TotalStepsCountsCalls ==
    (prog = "rect" /\ caller = "none") =>
        /\ Len(step_elapsed_ms) = node_counter + 1
        /\ node_counter <= max_nodes + 1
        /\ pc = "done" =>
              /\ Delivered.total_steps = Len(tried) + 1
              /\ Delivered.total_steps <= max_nodes + 1
              /\ (Delivered.total_steps = max_nodes + 1) <=> ret.aborted
              /\ Len(Delivered.step_elapsed_ms) = Delivered.total_steps + 1

\* build_trace was aborted by a budget of three calls or more
C36_Witness ==
    /\ prog = "rect" /\ pc = "done" /\ ret.aborted
    /\ max_nodes >= 3 /\ Delivered.total_steps = max_nodes + 1
    /\ Len(tried) = max_nodes

(***************************************************************************)
(* explored_subnodes of both build_trace variants                          *)
(***************************************************************************)
InitCount == InitTrip \/ InitRect

NextCount == NextTrip \/ NextRect

SpecCount == InitCount /\ [][NextCount]_vars

\* the dfs call on top of the stack records the exit of its own node at
\* this step
ExitRecorded ==
    /\ prog \in {"trip", "rect"} /\ pc = "run"
    /\ "first_move" \notin DOMAIN Top
    /\ Top.display_node_id # NoId
    /\ events' = Append(events, ExitEvent(Top.display_node_id))

\* C37: when the exit of a node is recorded, its explored_subnodes is the
\* number of dfs calls made strictly inside the dfs call of that node (the
\* calls counted since that call was made, without the call itself), which
\* is 0 for a node whose board is fully covered; and when build_trace has
\* returned with max_nodes >= 1, explored_subnodes of the root is the number
\* of all dfs calls minus one.
C37_ExploredSubnodesCountsInnerCalls ==
    /\ [][ExitRecorded =>
            /\ nodes'[Top.display_node_id].explored_subnodes
                   = node_counter' - Top.entry_counter - 1
            /\ (Top.phase = "entry" /\ node_counter' <= max_nodes
                   /\ mask_first_empty(sorted_mask, filled_keys) = None)
                  => nodes'[Top.display_node_id].explored_subnodes = 0]_vars
    /\ []((prog \in {"trip", "rect"} /\ caller = "none" /\ pc = "done"
              /\ max_nodes >= 1)
             => nodes[0].explored_subnodes = node_counter - 1)

\* build_trace has returned after the budget stopped it: the root counts
\* all calls but its own, the call that was stopped included, and a node
\* below the root has counted calls of its own
C37_Witness ==
    /\ prog \in {"trip", "rect"} /\ caller = "none" /\ pc = "done"
    /\ ret.aborted /\ max_nodes >= 3
    /\ nodes[0].explored_subnodes = node_counter - 1
    /\ nodes[0].explored_subnodes = max_nodes
    /\ \E n \in DOMAIN nodes : n # 0 /\ nodes[n].explored_subnodes >= 1

(***************************************************************************)
(* A caller that calls solve() a second time on the same DFSSolver: the    *)
(* board, the used set and the random generator are the ones the first     *)
(* call left behind.                                                       *)
(***************************************************************************)
SolveSameAgain ==
    /\ prog = "solve" /\ caller = "none"
    /\ pc = "done" /\ delivered = <<>>
    /\ delivered' = <<[result |-> ret, board |-> board, used |-> used]>>
    /\ stack' = <<[SolveStartStack[1] EXCEPT !.entry_board = board,
                                            !.entry_used = used]>>
    /\ ret' = NoRet /\ pc' = "run"
    /\ UNCHANGED <<prog, rows, cols, max_steps, seed, mask_cells,
                   selected_pieces, enable_pruning, max_display_depth,
                   max_display_children, max_nodes, sorted_mask,
                   allowed_keys, callerVars, traceVars, board, used, events,
                   rng>>

NextSolveSame == NextSolve \/ SolveSameAgain

SpecSolveSame == InitSolve /\ [][NextSolveSame]_vars

\* the names of the pieces of a list of placements
PlacedNames(placements) == {placements[i][1] : i \in DOMAIN placements}

\* what the first solve() call of the solver returned, once it has returned
FirstResult == IF delivered = <<>> THEN ret ELSE delivered[1].result

FirstSolved ==
    /\ prog = "solve" /\ caller = "none"
    /\ pc = "done" \/ delivered # <<>>
    /\ FirstResult # None

\* C38: once solve() has returned a solution, the board of the solver is
\* fully covered and used holds exactly the pieces of that solution; a
\* second solve() call on the same solver leaves the board and used as they
\* are and returns the empty list.
C38_SecondSolveReturnsEmptyList ==
    FirstSolved =>
        /\ grid_first_empty(board, rows, cols) = None
        /\ used = PlacedNames(FirstResult)
        /\ Cardinality(used) = Len(FirstResult)
        /\ delivered # <<>> =>
              /\ board = delivered[1].board
              /\ used = delivered[1].used
              /\ pc = "done" => ret = <<>>

\* the second call has returned on a solver whose first call had placed
\* three pieces
C38_Witness ==
    /\ prog = "solve" /\ caller = "none"
    /\ delivered # <<>> /\ pc = "done"
    /\ delivered[1].result # None /\ Len(delivered[1].result) = 3
    /\ ret = <<>>
    /\ board = delivered[1].board
====
